---------------------------- MODULE Spec2Model ----------------------------
(***************************************************************************)
(* A model of astroNN's dataset compiler (astroNN/datasets/h5_compiler.py) *)
(* and of the helpers it uses: the removal of the detector gaps from an    *)
(* APOGEE spectrum, the catalog filter that selects the train and the test *)
(* rows, and the loops that fetch the spectra and write the h5 tables;     *)
(* and of the training and the evaluation on those tables                  *)
(* (astroNN/NN/train.py, astroNN/NN/test.py): the run folder, the loading  *)
(* of the labels, the saved summaries and the batched predictions.         *)
(*                                                                         *)
(* Arrays are sequences; an index array holds 0-based indices, as numpy's. *)
(***************************************************************************)
EXTENDS Integers, Sequences, FiniteSets, TLC

VARIABLES
    np_lenient,   \* the installed numpy ignores out-of-bounds indices in
                  \* np.delete (numpy < 1.19) instead of raising IndexError
    gd,           \* one call of gap_delete: its arguments and its outcome
    fl,           \* one evaluation of the catalog filter of compile_apogee
    call,         \* a compile run: the entry point, its arguments, the catalogs
    pc,           \* where the run is: "start", "loop", "done", "raised", "idle"
    loc,          \* the local variables of the running compile function
    h5,           \* the h5 files on disk, by partition ("train", "test")
    fetches,      \* the spectrum fetches made so far, in order
    exc           \* the exception that ended the run ("" while there is none)

vars == <<np_lenient, gd, fl, call, pc, loc, h5, fetches, exc>>

(***************************************************************************)
(* Bounds of the model.                                                    *)
(***************************************************************************)
\* spectra of every length within LenSlack of a gap boundary are tried
LenSlack == 1
\* the longest catalog the filter is evaluated on
MaxRows == 2
\* the longest catalog a compile run is given
MaxCompileRows == 2
\* the longest Gaia table a cross-survey run is given
MaxGaiaRows == 2
\* the longest catalog the cross-matcher is given
MaxCatalog == 2

(***************************************************************************)
(* Python values.                                                          *)
(***************************************************************************)
\* an optional argument: None is the empty tuple, a given value v is <<v>>
None == << >>
Some(v) == <<v>>

\* what a call produces: an array, or the exception it raised
Returned(arr) == [raised |-> "", value |-> arr]
Raised(e) == [raised |-> e, value |-> << >>]


(***************************************************************************)
(* numpy.                                                                  *)
(***************************************************************************)
\* np.arange(start, stop, 1): the integers start, start+1, ..., stop-1
np_arange(start, stop) == start .. (stop - 1)

\* np.delete(arr, obj) for an index array obj of non-negative indices: the
\* elements of arr whose 0-based index is not in obj, in their order.  An
\* index >= len(arr) is ignored by an old numpy and is an IndexError in a
\* new one.
np_delete(arr, obj, lenient) ==
    LET N == Len(arr)
        inbounds == obj \subseteq (0 .. (N - 1))
        inside == IF inbounds THEN obj ELSE obj \cap (0 .. (N - 1))
        indexed == [i \in 1 .. N |-> <<i - 1, arr[i]>>]
        kept == SelectSeq(indexed, LAMBDA p : p[1] \notin inside)
    IN  IF ~inbounds /\ ~lenient
        THEN Raised("IndexError")
        ELSE Returned([j \in 1 .. Len(kept) |-> kept[j][2]])

\* a chain of np.delete calls, each on the result of the one before; an
\* exception ends the chain
RECURSIVE np_delete_each(_, _, _)
np_delete_each(arr, objs, lenient) ==
    IF objs = << >>
    THEN Returned(arr)
    ELSE LET r == np_delete(arr, Head(objs), lenient)
         IN  IF r.raised # ""
             THEN r
             ELSE np_delete_each(r.value, Tail(objs), lenient)

\* range(n): 0, 1, ..., n-1
py_range(n) == [i \in 1 .. n |-> i - 1]

\* np.where(mask)[0] for a boolean array: the 0-based indices at which the
\* mask is True, ascending
np_where(mask) == SelectSeq(py_range(Len(mask)), LAMBDA i : mask[i + 1])

\* the elements of a sequence as a set
Elems(ar) == {ar[i] : i \in 1 .. Len(ar)}

\* (mutant) the sort left out: the array as it is
np_sort_missing(ar) == ar

\* (mutant) the sort in descending order
np_sort_descending(ar) == SortSeq(ar, LAMBDA a, b : a > b)

\* ndarray.sort(): the same elements, duplicates kept, ascending
np_sort(ar) == SortSeq(ar, LAMBDA a, b : a < b)

\* np.unique(ar): the distinct elements, ascending
np_unique(ar) ==
    LET srt == np_sort(ar)
        first == SelectSeq(py_range(Len(srt)),
                           LAMBDA i : i = 0 \/ srt[i] # srt[i + 1])
    IN  [j \in 1 .. Len(first) |-> srt[first[j] + 1]]

\* np.intersect1d(ar1, ar2): both made unique, concatenated and sorted; a
\* value is common to both where it is followed by an equal one
\*   aux = np.concatenate((unique(ar1), unique(ar2))); aux.sort()
\*   return aux[:-1][aux[1:] == aux[:-1]]
np_intersect1d(ar1, ar2) ==
    LET aux == np_sort(np_unique(ar1) \o np_unique(ar2))
        hit == SelectSeq(py_range(Len(aux)),
                         LAMBDA i : i + 2 <= Len(aux) /\ aux[i + 2] = aux[i + 1])
    IN  [j \in 1 .. Len(hit) |-> aux[hit[j] + 1]]

\* functools.reduce(np.intersect1d, arrays): a fold from the left
RECURSIVE reduce_intersect1d(_)
reduce_intersect1d(arrays) ==
    IF Len(arrays) = 1
    THEN arrays[1]
    ELSE np_intersect1d(reduce_intersect1d(SubSeq(arrays, 1, Len(arrays) - 1)),
                        arrays[Len(arrays)])

(***************************************************************************)
(* astroNN.apogee.apogee_shared                                            *)
(***************************************************************************)
apogee_default_dr(dr) == IF dr = None THEN 14 ELSE dr[1]

(***************************************************************************)
(* gap_delete                                                              *)
(***************************************************************************)
\* the four index arrays of DR13; the last one runs to the end of the input
DR13_arrs(single_spec) ==
    [arr1 |-> np_arange(0, 322),
     arr2 |-> np_arange(3243, 3648),
     arr3 |-> np_arange(6049, 6412),
     arr4 |-> np_arange(8306, Len(single_spec))]

\* the four index arrays of DR14
DR14_arrs ==
    [arr1 |-> np_arange(0, 246),
     arr2 |-> np_arange(3274, 3585),
     arr3 |-> np_arange(6080, 6344),
     arr4 |-> np_arange(8335, 8575)]

\* (mutant) the gaps deleted from the first to the last, each against the
\* indices the earlier deletions have already shifted
DeleteOrderAscending(a) == <<a.arr1, a.arr2, a.arr3, a.arr4>>

\* the order in which gap_delete deletes the four arrays: the last gap first
DeleteOrder(a) == <<a.arr4, a.arr3, a.arr2, a.arr1>>

\* (mutant) another release is no error: the input is returned as it is
gap_delete_other_dr_unchanged(single_spec, dr0, lenient) ==
    LET dr == apogee_default_dr(dr0)
    IN  IF dr = 13
        THEN np_delete_each(single_spec, DeleteOrder(DR13_arrs(single_spec)), lenient)
        ELSE IF dr = 14
        THEN np_delete_each(single_spec, DeleteOrder(DR14_arrs), lenient)
        ELSE Returned(single_spec)

gap_delete(single_spec, dr0, lenient) ==
    LET dr == apogee_default_dr(dr0)
    IN  IF dr = 13
        THEN np_delete_each(single_spec, DeleteOrder(DR13_arrs(single_spec)), lenient)
        ELSE IF dr = 14
        THEN np_delete_each(single_spec, DeleteOrder(DR14_arrs), lenient)
        ELSE Raised("ValueError")

(***************************************************************************)
(* The catalog filter of compile_apogee (and of compile_apogee_apstar,     *)
(* which repeats it line for line).  A catalog is the allStar table: a     *)
(* sequence of rows, row i of the table being element i+1.                 *)
(***************************************************************************)
\* the defaults of the keyword arguments
DefaultCfg ==
    [dr |-> None, starflagcut |-> TRUE, aspcapflagcut |-> TRUE, vscattercut |-> 1,
     SNRtrain_low |-> 200, SNRtrain_high |-> 99999, tefflow |-> 4000,
     teffhigh |-> 5500, ironlow |-> -3, SNRtest_low |-> 100, SNRtest_high |-> 200]

total(hdu) == py_range(Len(hdu))

\* (mutant) the starflag cut applied whether or not it is switched on
DR_fitlered_starflag_always(cfg, hdu) == np_where([i \in 1 .. Len(hdu) |-> hdu[i].STARFLAG = 0])

DR_fitlered_starflag(cfg, hdu) ==
    IF cfg.starflagcut
    THEN np_where([i \in 1 .. Len(hdu) |-> hdu[i].STARFLAG = 0])
    ELSE total(hdu)

DR_fitlered_aspcapflag(cfg, hdu) ==
    IF cfg.aspcapflagcut
    THEN np_where([i \in 1 .. Len(hdu) |-> hdu[i].ASPCAPFLAG = 0])
    ELSE total(hdu)

DR_fitlered_temp_lower(cfg, hdu) == np_where([i \in 1 .. Len(hdu) |-> cfg.tefflow <= hdu[i].teff])
\* (mutant) the upper temperature cut exclusive
DR_fitlered_temp_upper_strict(cfg, hdu) == np_where([i \in 1 .. Len(hdu) |-> cfg.teffhigh > hdu[i].teff])

DR_fitlered_temp_upper(cfg, hdu) == np_where([i \in 1 .. Len(hdu) |-> cfg.teffhigh >= hdu[i].teff])
DR_fitlered_vscatter(cfg, hdu) == np_where([i \in 1 .. Len(hdu) |-> hdu[i].VSCATTER < cfg.vscattercut])
DR_fitlered_Fe(cfg, hdu) == np_where([i \in 1 .. Len(hdu) |-> hdu[i].Fe > cfg.ironlow])
DR_fitlered_logg(cfg, hdu) == np_where([i \in 1 .. Len(hdu) |-> hdu[i].logg # -9999])
\* (mutant) the train rows cut at the lower bound of the test band
DR_fitlered_snrlow_testbound(cfg, hdu) == np_where([i \in 1 .. Len(hdu) |-> hdu[i].SNR > cfg.SNRtest_low])

DR_fitlered_snrlow(cfg, hdu) == np_where([i \in 1 .. Len(hdu) |-> hdu[i].SNR > cfg.SNRtrain_low])
DR_fitlered_snrhigh(cfg, hdu) == np_where([i \in 1 .. Len(hdu) |-> hdu[i].SNR < cfg.SNRtrain_high])
DR_fitlered_SNRtest_low(cfg, hdu) == np_where([i \in 1 .. Len(hdu) |-> hdu[i].SNR > cfg.SNRtest_low])
\* (mutant) the test rows cut at the upper bound of the train band
DR_fitlered_SNRtest_high_trainbound(cfg, hdu) == np_where([i \in 1 .. Len(hdu) |-> hdu[i].SNR < cfg.SNRtrain_high])

DR_fitlered_SNRtest_high(cfg, hdu) == np_where([i \in 1 .. Len(hdu) |-> hdu[i].SNR < cfg.SNRtest_high])
DR14_fitlered_location(cfg, hdu) == np_where([i \in 1 .. Len(hdu) |-> hdu[i].LOCATION_ID > 1])

\* the criteria handed to reduce for the train rows, in the code's order
TrainCriteria(cfg, hdu) ==
    <<DR_fitlered_starflag(cfg, hdu), DR_fitlered_aspcapflag(cfg, hdu),
      DR_fitlered_temp_lower(cfg, hdu), DR_fitlered_vscatter(cfg, hdu),
      DR_fitlered_Fe(cfg, hdu), DR_fitlered_logg(cfg, hdu),
      DR_fitlered_snrlow(cfg, hdu), DR_fitlered_snrhigh(cfg, hdu),
      DR14_fitlered_location(cfg, hdu), DR_fitlered_temp_upper(cfg, hdu)>>

\* the criteria handed to reduce for the test rows
TestCriteria(cfg, hdu) ==
    <<DR_fitlered_starflag(cfg, hdu), DR_fitlered_aspcapflag(cfg, hdu),
      DR_fitlered_temp_lower(cfg, hdu), DR_fitlered_vscatter(cfg, hdu),
      DR_fitlered_Fe(cfg, hdu), DR_fitlered_logg(cfg, hdu),
      DR_fitlered_SNRtest_low(cfg, hdu), DR_fitlered_SNRtest_high(cfg, hdu),
      DR14_fitlered_location(cfg, hdu), DR_fitlered_temp_upper(cfg, hdu)>>

filtered_train_index(cfg, hdu) == reduce_intersect1d(TrainCriteria(cfg, hdu))
filtered_test_index(cfg, hdu) == reduce_intersect1d(TestCriteria(cfg, hdu))

(***************************************************************************)
(* The catalogs and the settings the filter is evaluated on.               *)
(***************************************************************************)
\* a row that passes every criterion but the SNR ones, which depend on snr
CleanRow(snr) ==
    [STARFLAG |-> 0, ASPCAPFLAG |-> 0, VSCATTER |-> 0, SNR |-> snr,
     LOCATION_ID |-> 2, teff |-> 4000, logg |-> 2, Fe |-> 0]

\* SNR values below, on, between and above the default cuts
SNRValues == {100, 150, 200, 250, 99999}

\* clean rows, and rows that differ from a clean row in one column: each
\* fails (or, for teff = 5500, only just passes) one criterion
FilterRows ==
    {CleanRow(snr) : snr \in SNRValues}
    \cup UNION {
        {[CleanRow(snr) EXCEPT !.STARFLAG = 1],
         [CleanRow(snr) EXCEPT !.ASPCAPFLAG = 1],
         [CleanRow(snr) EXCEPT !.VSCATTER = 1],
         [CleanRow(snr) EXCEPT !.LOCATION_ID = 1],
         [CleanRow(snr) EXCEPT !.teff = 3999],
         [CleanRow(snr) EXCEPT !.teff = 5500],
         [CleanRow(snr) EXCEPT !.teff = 5501],
         [CleanRow(snr) EXCEPT !.logg = -9999],
         [CleanRow(snr) EXCEPT !.Fe = -3]} : snr \in {150, 250}}

Catalogs(rows, maxlen) == UNION {[1 .. n -> rows] : n \in 0 .. maxlen}

\* settings: both flag cuts on or off, and SNR bands that are apart, that
\* touch and that overlap
FilterCfgs ==
    {[DefaultCfg EXCEPT !.starflagcut = sf, !.aspcapflagcut = af,
                        !.SNRtrain_low = lo, !.SNRtest_high = hi] :
        sf \in BOOLEAN, af \in BOOLEAN, lo \in {150, 200}, hi \in {150, 200, 250}}

(***************************************************************************)
(* Spectra.  np.delete never looks at a sample's value, so a spectrum is   *)
(* given by its length; each sample carries its own 0-based position, and  *)
(* the positions in an output say which samples survived.                  *)
(***************************************************************************)
Spectrum(n) == [i \in 1 .. n |-> i - 1]

\* the pixel count of an aspcapStar spectrum
ApStarPixels == 8575

\* the lengths at which the behaviour of gap_delete can change: the ends of
\* the gaps of both releases
GapEnds == {322, 3243, 3648, 6049, 6412, 8306,
            246, 3274, 3585, 6080, 6344, 8335, ApStarPixels}

InputLengths ==
    {n \in UNION {(b - LenSlack) .. (b + LenSlack) : b \in GapEnds} : n >= 0}

\* the data releases a caller may pass: none, the supported ones, others
DrArgs == {None, Some(12), Some(13), Some(14), Some(15)}

(***************************************************************************)
(* SpecGap: calls of gap_delete on every input.                            *)
(***************************************************************************)
(***************************************************************************)
(* compile_apogee.  The run is cut at its calls to the outside: one step   *)
(* up to the first spectrum fetch, one step per fetched record, one step   *)
(* per written file.                                                       *)
(***************************************************************************)
\* the scalar datasets of an output file, in the order they are created,
\* each with the catalog column it is read from
ScalarColumns ==
    <<<<"SNR", "SNR">>, <<"RA", "RA">>, <<"DEC", "DEC">>,
      <<"teff", "PARAM[0]">>, <<"logg", "PARAM[1]">>, <<"M", "PARAM[3]">>,
      <<"alpha", "PARAM[6]">>, <<"C", "X_H[0]">>, <<"Cl", "X_H[1]">>,
      <<"N", "X_H[2]">>, <<"O", "X_H[3]">>, <<"Na", "X_H[4]">>,
      <<"Mg", "X_H[5]">>, <<"Al", "X_H[6]">>, <<"Si", "X_H[7]">>,
      <<"P", "X_H[8]">>, <<"S", "X_H[9]">>, <<"K", "X_H[10]">>,
      <<"Ca", "X_H[11]">>, <<"Ti", "X_H[12]">>, <<"Ti2", "X_H[13]">>,
      <<"V", "X_H[14]">>, <<"Cr", "X_H[15]">>, <<"Mn", "X_H[16]">>,
      <<"Fe", "X_H[17]">>, <<"Ni", "X_H[19]">>, <<"Cu", "X_H[20]">>,
      <<"Ge", "X_H[21]">>, <<"Rb", "X_H[22]">>, <<"Y", "X_H[23]">>,
      <<"Nd", "X_H[24]">>>>

ScalarNames == {ScalarColumns[c][1] : c \in 1 .. Len(ScalarColumns)}

SourceOf(name) ==
    LET c == CHOOSE c \in 1 .. Len(ScalarColumns) : ScalarColumns[c][1] = name
    IN  ScalarColumns[c][2]

\* hdulist[1].data[column][index]: the value of one cell of the catalog,
\* given by the cell it is
CatalogCell(column, index) == [column |-> column, row |-> index]

\* the lists a partition starts with: all empty
EmptyLists ==
    [spec |-> << >>, spec_bestfit |-> << >>, cols |-> [n \in ScalarNames |-> << >>]]

\* a spectrum as it is kept in a list: the flux array, the catalog row of
\* the star it belongs to, and the pixel count of the file it was read from
FluxOf(index, pixels, arr) == [row |-> index, pixels |-> pixels, flux |-> arr]

\* the pixel counts of the files a fetch may deliver
FilePixels == {ApStarPixels - 1, ApStarPixels, ApStarPixels + 1}

\* what combined_spectra answers: a warning flag, or None and the path of a
\* file with some pixel count
FetchOutcomes ==
    {[warningflag |-> Some(1), pixels |-> 0]}
    \cup {[warningflag |-> None, pixels |-> n] : n \in FilePixels}

\* the data releases a run is configured with
CompileDrs == {None, Some(13), Some(14)}

\* gap_delete on the flux array of a fetched file, for every pixel count and
\* release a run meets (evaluated once, then looked up)
GapDeleteTable ==
    [pixels \in FilePixels |-> [dr \in CompileDrs |-> [lenient \in BOOLEAN |->
        gap_delete(Spectrum(pixels), dr, lenient)]]]

gap_delete_file(pixels, dr, lenient) == GapDeleteTable[pixels][dr][lenient]

\* the release compile_apogee passes to gap_delete
ApogeeGapDr(cfg) == Some(14)

\* (mutant) an empty list cannot be stored either
Ragged_or_empty(specs) ==
    specs = << >> \/ \E i, j \in 1 .. Len(specs) : Len(specs[i].flux) # Len(specs[j].flux)

\* np.array(list of arrays) has a shape h5py can store only if the arrays
\* have one length
Ragged(specs) == \E i, j \in 1 .. Len(specs) : Len(specs[i].flux) # Len(specs[j].flux)

NoFile == [exists |-> FALSE]

\* the lines of the loop over tt before its loop over the records
ApogeePartition(tt, train, test) ==
    [tt |-> tt, filtered_index |-> IF tt = "train" THEN train ELSE test, k |-> 0]

\* lines 95-192: the catalog is read and filtered, the lists of the train
\* partition are made
ApogeeStart ==
    /\ pc = "start" /\ call.entry = "compile_apogee"
    /\ LET train == filtered_train_index(call.cfg, call.hdulist)
           test == filtered_test_index(call.cfg, call.hdulist)
       IN  loc' = [filtered_train_index |-> train, filtered_test_index |-> test,
                   part |-> ApogeePartition("train", train, test),
                   lists |-> EmptyLists]
    /\ pc' = "loop"
    /\ UNCHANGED <<np_lenient, gd, fl, call, h5, fetches, exc>>

\* (mutant) a fetch that returns a warning ends the run with an error
ApogeeRecord_warning_aborts ==
    /\ pc = "loop" /\ call.entry = "compile_apogee"
    /\ loc.part.k < Len(loc.part.filtered_index)
    /\ \E out \in FetchOutcomes :
          LET index == loc.part.filtered_index[loc.part.k + 1]
              _spec == gap_delete_file(out.pixels, ApogeeGapDr(call.cfg), np_lenient)
              _spec_bestfit == gap_delete_file(out.pixels, ApogeeGapDr(call.cfg), np_lenient)
              old == loc.lists
              new == [spec |-> Append(old.spec, FluxOf(index, out.pixels, _spec.value)),
                      spec_bestfit |->
                          Append(old.spec_bestfit, FluxOf(index, out.pixels, _spec_bestfit.value)),
                      cols |-> [n \in ScalarNames |->
                                   Append(old.cols[n], CatalogCell(SourceOf(n), index))]]
          IN  /\ fetches' = Append(fetches, [tt |-> loc.part.tt, index |-> index,
                                             warningflag |-> out.warningflag])
              /\ IF out.warningflag # None
                 THEN /\ pc' = "raised"
                      /\ exc' = "IOError"
                      /\ UNCHANGED loc
                 ELSE IF _spec.raised # ""
                 THEN /\ pc' = "raised"
                      /\ exc' = _spec.raised
                      /\ UNCHANGED loc
                 ELSE /\ loc' = [loc EXCEPT !.part.k = @ + 1, !.lists = new]
                      /\ UNCHANGED <<pc, exc>>
    /\ UNCHANGED <<np_lenient, gd, fl, call, h5>>

\* lines 194-237: one pass of the loop over filtered_index
ApogeeRecord ==
    /\ pc = "loop" /\ call.entry = "compile_apogee"
    /\ loc.part.k < Len(loc.part.filtered_index)
    /\ \E out \in FetchOutcomes :
          LET index == loc.part.filtered_index[loc.part.k + 1]
              _spec == gap_delete_file(out.pixels, ApogeeGapDr(call.cfg), np_lenient)
              _spec_bestfit == gap_delete_file(out.pixels, ApogeeGapDr(call.cfg), np_lenient)
              old == loc.lists
              new == [spec |-> Append(old.spec, FluxOf(index, out.pixels, _spec.value)),
                      spec_bestfit |->
                          Append(old.spec_bestfit, FluxOf(index, out.pixels, _spec_bestfit.value)),
                      cols |-> [n \in ScalarNames |->
                                   Append(old.cols[n], CatalogCell(SourceOf(n), index))]]
          IN  /\ fetches' = Append(fetches, [tt |-> loc.part.tt, index |-> index,
                                             warningflag |-> out.warningflag])
              /\ IF out.warningflag # None
                 THEN /\ loc' = [loc EXCEPT !.part.k = @ + 1]
                      /\ UNCHANGED <<pc, exc>>
                 ELSE IF _spec.raised # ""
                 THEN /\ pc' = "raised"
                      /\ exc' = _spec.raised
                      /\ UNCHANGED loc
                 ELSE /\ loc' = [loc EXCEPT !.part.k = @ + 1, !.lists = new]
                      /\ UNCHANGED <<pc, exc>>
    /\ UNCHANGED <<np_lenient, gd, fl, call, h5>>

\* the datasets compile_apogee creates in a file
ApogeeDatasets(l) ==
    [spectra |-> l.lists.spec, spectrabestfit |-> l.lists.spec_bestfit,
     index |-> l.part.filtered_index, cols |-> l.lists.cols]

\* lines 239-276, and lines 152-192 of the next pass: the file of the
\* partition is created, filled and closed.  create_dataset('spectra') is
\* the first to run and fails on a ragged list: the file is left created,
\* empty and open.
ApogeeWrite ==
    /\ pc = "loop" /\ call.entry = "compile_apogee"
    /\ loc.part.k = Len(loc.part.filtered_index)
    /\ IF Ragged(loc.lists.spec)
       THEN /\ h5' = [h5 EXCEPT ![loc.part.tt] =
                         [exists |-> TRUE, open |-> TRUE, datasets |-> << >>]]
            /\ pc' = "raised"
            /\ exc' = "TypeError"
            /\ UNCHANGED loc
       ELSE /\ h5' = [h5 EXCEPT ![loc.part.tt] =
                         [exists |-> TRUE, open |-> FALSE, datasets |-> ApogeeDatasets(loc)]]
            /\ UNCHANGED exc
            /\ IF loc.part.tt = "train"
               THEN /\ loc' = [loc EXCEPT
                                  !.part = ApogeePartition("test", loc.filtered_train_index,
                                                           loc.filtered_test_index),
                                  !.lists = EmptyLists]
                    /\ UNCHANGED pc
               ELSE /\ pc' = "done"
                    /\ UNCHANGED loc
    /\ UNCHANGED <<np_lenient, gd, fl, call, fetches>>

(***************************************************************************)
(* compile_apogee_apstar: the same filter; both passes of the loop over tt *)
(* run over the train and the test indices together, the visit file of     *)
(* each record is opened and closed, and the files are created empty.      *)
(***************************************************************************)
\* np.concatenate((filtered_train_index, filtered_test_index))
ApstarPartition(tt, train, test) ==
    [tt |-> tt, filtered_index |-> train \o test, k |-> 0]

\* what visit_spectra answers: a warning flag, or None and a path
VisitOutcomes == {Some(1), None}

\* lines 301-398
ApstarStart ==
    /\ pc = "start" /\ call.entry = "compile_apogee_apstar"
    /\ LET train == filtered_train_index(call.cfg, call.hdulist)
           test == filtered_test_index(call.cfg, call.hdulist)
       IN  loc' = [filtered_train_index |-> train, filtered_test_index |-> test,
                   part |-> ApstarPartition("train", train, test)]
    /\ pc' = "loop"
    /\ UNCHANGED <<np_lenient, gd, fl, call, h5, fetches, exc>>

\* lines 400-409: one pass of the loop over filtered_index
ApstarRecord ==
    /\ pc = "loop" /\ call.entry = "compile_apogee_apstar"
    /\ loc.part.k < Len(loc.part.filtered_index)
    /\ \E warningflag \in VisitOutcomes :
          fetches' = Append(fetches, [tt |-> loc.part.tt,
                                      index |-> loc.part.filtered_index[loc.part.k + 1],
                                      warningflag |-> warningflag])
    /\ loc' = [loc EXCEPT !.part.k = @ + 1]
    /\ UNCHANGED <<np_lenient, gd, fl, call, pc, h5, exc>>

\* lines 444-480, and lines 358-398 of the next pass
ApstarWrite ==
    /\ pc = "loop" /\ call.entry = "compile_apogee_apstar"
    /\ loc.part.k = Len(loc.part.filtered_index)
    /\ h5' = [h5 EXCEPT ![loc.part.tt] =
                 [exists |-> TRUE, open |-> FALSE, datasets |-> << >>]]
    /\ IF loc.part.tt = "train"
       THEN /\ loc' = [loc EXCEPT
                          !.part = ApstarPartition("test", loc.filtered_train_index,
                                                   loc.filtered_test_index)]
            /\ UNCHANGED pc
       ELSE /\ pc' = "done"
            /\ UNCHANGED loc
    /\ UNCHANGED <<np_lenient, gd, fl, call, fetches, exc>>

(***************************************************************************)
(* compile_gaia.  The APOGEE catalog is filtered, the Gaia rows with a bad *)
(* parallax are deleted, the two are cross-matched, and for each partition *)
(* the spectra of the matched APOGEE records are collected and written.    *)
(* A Gaia row is [source, parallax, parallax_error], source being its      *)
(* position in the concatenated TGAS tables.                               *)
(***************************************************************************)
\* the defaults of the keyword arguments, and the cuts set in the body
GaiaDefaultCfg ==
    [apogee_dr |-> None, gaia_dr |-> None, SNR_low |-> 100, vscattercut |-> 1,
     tefflow |-> 4000, teffhigh |-> 5500]

\* lines 514-526
filtered_apogee_index(cfg, hdu) ==
    reduce_intersect1d(
        <<np_where([i \in 1 .. Len(hdu) |-> hdu[i].LOCATION_ID > 1]),
          np_where([i \in 1 .. Len(hdu) |-> hdu[i].SNR > cfg.SNR_low]),
          np_where([i \in 1 .. Len(hdu) |-> hdu[i].STARFLAG = 0]),
          np_where([i \in 1 .. Len(hdu) |-> hdu[i].ASPCAPFLAG = 0]),
          np_where([i \in 1 .. Len(hdu) |-> hdu[i].VSCATTER < cfg.vscattercut]),
          np_where([i \in 1 .. Len(hdu) |-> cfg.tefflow <= hdu[i].teff]),
          np_where([i \in 1 .. Len(hdu) |-> cfg.teffhigh >= hdu[i].teff])>>)

\* parallax_error / parallax compared with a bound num/den, for a positive
\* parallax: the quotient of two integers against a decimal fraction
PercentAbove(g, num, den) == g.parallax_error * den > g.parallax * num
\* (mutant) the bound itself counts as below
PercentAtLeast_above(g, num, den) == g.parallax_error * den > g.parallax * num

PercentAtLeast(g, num, den) == g.parallax_error * den >= g.parallax * num

\* lines 551-566: the rows with parallax <= 0 are deleted, then the rows
\* whose parallax_error / parallax exceeds 0.2
GaiaCleaned(tgas) ==
    LET bad1 == Elems(np_where([i \in 1 .. Len(tgas) |-> tgas[i].parallax <= 0]))
        g1 == np_delete(tgas, bad1, TRUE).value
        bad2 == Elems(np_where([i \in 1 .. Len(g1) |-> PercentAbove(g1[i], 2, 10)]))
    IN  np_delete(g1, bad2, TRUE).value

\* astroNN.datasets.xmatch.xmatch: for each record of the first catalog at
\* most one record of the second; m1 and m2 are the paired indices.  Which
\* records pair is decided by the positions, which are left open here.
XMatchResults(n1, n2) ==
    {[m1 |-> SelectSeq(py_range(n1), LAMBDA i : f[i] >= 0),
      m2 |-> LET hit == SelectSeq(py_range(n1), LAMBDA i : f[i] >= 0)
             IN  [j \in 1 .. Len(hit) |-> f[hit[j]]]] :
        f \in [0 .. (n1 - 1) -> -1 .. (n2 - 1)]}

\* astroNN.gaia.gaia_shared.to_absmag on two arrays: element by element,
\* from the magnitude and the parallax at the same position
to_absmag(mag, parallax) ==
    [i \in 1 .. Len(mag) |-> [mag |-> mag[i], parallax |-> parallax[i]]]

\* arr[index_array]: the elements of arr at the 0-based indices given
Take(arr, idx) == [j \in 1 .. Len(idx) |-> arr[idx[j] + 1]]

\* lines 582-592: the pairs of a partition, by the parallax error of the
\* Gaia record, and the absolute magnitudes of the pairs
GaiaPartition(tt, l) ==
    LET percent == Take(l.gaia, l.m2)
        filtered_index ==
            IF tt = "train"
            THEN np_where([i \in 1 .. Len(percent) |-> PercentAtLeast(percent[i], 1, 10)])
            ELSE np_where([i \in 1 .. Len(percent) |-> ~PercentAtLeast(percent[i], 1, 10)])
        m1_1 == Take(l.m1, filtered_index)
        m2_2 == Take(l.m2, filtered_index)
    IN  [tt |-> tt, m1_1 |-> m1_1, m2_2 |-> m2_2,
         absmag |-> to_absmag(
             [j \in 1 .. Len(m1_1) |-> CatalogCell("K", l.filtered_apogee_index[m1_1[j] + 1])],
             [j \in 1 .. Len(m2_2) |-> l.gaia[m2_2[j] + 1].source]),
         k |-> 0, spec |-> << >>]

\* lines 496-592
GaiaStart ==
    /\ pc = "start" /\ call.entry = "compile_gaia"
    /\ LET idx == filtered_apogee_index(call.cfg, call.hdulist)
           gaia == GaiaCleaned(call.tgas)
       IN  \E m \in XMatchResults(Len(idx), Len(gaia)) :
              LET l == [filtered_apogee_index |-> idx, gaia |-> gaia,
                        m1 |-> m.m1, m2 |-> m.m2]
              IN  loc' = l @@ [part |-> GaiaPartition("train", l)]
    /\ pc' = "loop"
    /\ UNCHANGED <<np_lenient, gd, fl, call, h5, fetches, exc>>

\* where the spectrum file of a matched record is: on disk with some pixel
\* count, or not on disk, and then downloaded or not
LocalOutcomes ==
    {[file |-> "local", pixels |-> n] : n \in FilePixels}
    \cup {[file |-> "downloaded", pixels |-> ApStarPixels],
          [file |-> "missing", pixels |-> 0]}

\* lines 593-611: one pass of the loop over m1_1.  combined_spectra answers
\* with a pair (warning flag, path), which is what warningflag then holds.
GaiaRecord ==
    /\ pc = "loop" /\ call.entry = "compile_gaia"
    /\ loc.part.k < Len(loc.part.m1_1)
    /\ LET index == loc.part.m1_1[loc.part.k + 1]
           row == loc.filtered_apogee_index[index + 1]
       IN  IF apogee_default_dr(call.cfg.apogee_dr) # 14
           THEN /\ pc' = "raised"
                /\ exc' = "ValueError"
                /\ UNCHANGED <<loc, fetches>>
           ELSE \E out \in LocalOutcomes :
                   LET warningflag ==
                           IF out.file = "local"
                           THEN None
                           ELSE Some(<<IF out.file = "downloaded" THEN None ELSE Some(1),
                                       "path">>)
                       _spec == gap_delete_file(out.pixels, Some(apogee_default_dr(call.cfg.apogee_dr)),
                                                    np_lenient)
                   IN  /\ fetches' = Append(fetches, [tt |-> loc.part.tt, index |-> row,
                                                      file |-> out.file])
                       /\ IF warningflag # None
                          THEN /\ loc' = [loc EXCEPT !.part.k = @ + 1]
                               /\ UNCHANGED <<pc, exc>>
                          ELSE IF _spec.raised # ""
                          THEN /\ pc' = "raised"
                               /\ exc' = _spec.raised
                               /\ UNCHANGED loc
                          ELSE /\ loc' = [loc EXCEPT
                                             !.part.k = @ + 1,
                                             !.part.spec =
                                                 Append(@, FluxOf(row, out.pixels, _spec.value))]
                               /\ UNCHANGED <<pc, exc>>
    /\ UNCHANGED <<np_lenient, gd, fl, call, h5>>

\* the datasets compile_gaia creates in a file
GaiaDatasets(l) ==
    [spectra |-> l.part.spec,
     teff |-> [j \in 1 .. Len(l.part.m1_1) |->
                  CatalogCell("PARAM[0]", l.filtered_apogee_index[l.part.m1_1[j] + 1])],
     absmag |-> l.part.absmag]

\* lines 613-617, and lines 582-592 of the next pass: the file of the
\* partition is created and filled; it is not closed
GaiaWrite ==
    /\ pc = "loop" /\ call.entry = "compile_gaia"
    /\ loc.part.k = Len(loc.part.m1_1)
    /\ IF Ragged(loc.part.spec)
       THEN /\ h5' = [h5 EXCEPT ![loc.part.tt] =
                         [exists |-> TRUE, open |-> TRUE, datasets |-> << >>]]
            /\ pc' = "raised"
            /\ exc' = "TypeError"
            /\ UNCHANGED loc
       ELSE /\ h5' = [h5 EXCEPT ![loc.part.tt] =
                         [exists |-> TRUE, open |-> TRUE, datasets |-> GaiaDatasets(loc)]]
            /\ UNCHANGED exc
            /\ IF loc.part.tt = "train"
               THEN /\ loc' = [loc EXCEPT !.part = GaiaPartition("test", loc)]
                    /\ UNCHANGED pc
               ELSE /\ pc' = "done"
                    /\ UNCHANGED loc
    /\ UNCHANGED <<np_lenient, gd, fl, call, fetches>>

\* the rows of the catalogs a cross-survey run is given: an APOGEE row that
\* passes the cuts and one that does not; Gaia rows with a parallax error of
\* 0, 10 and 30 per cent, and one with no parallax
GaiaApogeeRows == {CleanRow(250), CleanRow(100)}

GaiaRows(n) ==
    {[source |-> n, parallax |-> 10, parallax_error |-> 0],
     [source |-> n, parallax |-> 10, parallax_error |-> 1],
     [source |-> n, parallax |-> 10, parallax_error |-> 3],
     [source |-> n, parallax |-> 0, parallax_error |-> 1]}

TgasTables(maxlen) ==
    UNION {{t \in [1 .. n -> UNION {GaiaRows(i) : i \in 0 .. (n - 1)}] :
               \A i \in 1 .. n : t[i].source = i - 1} : n \in 0 .. maxlen}

\* the rows of the catalogs a compile run is given: clean rows outside both
\* default SNR bands, in the test band and in the train band
CompileRows == {CleanRow(100), CleanRow(150), CleanRow(250)}

(***************************************************************************)
(* The ten-record catalogs of the band scenario: six clean records with an *)
(* SNR in [200, 99999] and four clean records with an SNR in [100, 200),   *)
(* at any positions.  Records of a band are interchangeable, so a catalog  *)
(* is given by the positions of the six and by how many records of each    *)
(* band sit on a bound of the band.                                        *)
(***************************************************************************)
ScenarioPositions == 0 .. 9

TrainBandSets == {T \in SUBSET ScenarioPositions : Cardinality(T) = 6}

\* how many of the positions of S lie before position i
Rank(S, i) == Cardinality({j \in S : j < i})

\* n200 of the six have SNR 200, the next n99999 have SNR 99999, the rest
\* 250; n100 of the four have SNR 100, the rest 150
ScenarioCatalog(T, n200, n99999, n100) ==
    [i \in 1 .. 10 |->
        IF (i - 1) \in T
        THEN CleanRow(IF Rank(T, i - 1) < n200 THEN 200
                      ELSE IF Rank(T, i - 1) < n200 + n99999 THEN 99999
                      ELSE 250)
        ELSE CleanRow(IF Rank(ScenarioPositions \ T, i - 1) < n100 THEN 100
                      ELSE 150)]

\* the parts of the state a specification does not use stay as they are here
FilterIdle == fl = [pc |-> "idle"]
CompileIdle ==
    /\ call = [entry |-> "none"]
    /\ pc = "idle"
    /\ loc = << >>
    /\ h5 = [tt \in {"train", "test"} |-> NoFile]
    /\ fetches = << >>
    /\ exc = ""
GapIdle == gd = [pc |-> "idle"]

GapInit ==
    /\ np_lenient \in BOOLEAN
    /\ FilterIdle
    /\ CompileIdle
    /\ \E n \in InputLengths, dr \in DrArgs :
          gd = [pc |-> "call", single_spec |-> Spectrum(n), dr |-> dr,
                result |-> Returned(<< >>)]

GapDeleteCall ==
    /\ gd.pc = "call"
    /\ gd' = [gd EXCEPT !.pc = "done",
                        !.result = gap_delete(gd.single_spec, gd.dr, np_lenient)]
    /\ UNCHANGED <<np_lenient, fl, call, pc, loc, h5, fetches, exc>>

GapNext == GapDeleteCall

SpecGap == GapInit /\ [][GapNext]_vars

(***************************************************************************)
(* SpecFilter: the filter of compile_apogee on every catalog and setting.  *)
(***************************************************************************)
FilterInit ==
    /\ np_lenient = TRUE
    /\ GapIdle
    /\ CompileIdle
    /\ \E cfg \in FilterCfgs, hdu \in Catalogs(FilterRows, MaxRows) :
          fl = [pc |-> "call", cfg |-> cfg, hdulist |-> hdu,
                filtered_train_index |-> << >>, filtered_test_index |-> << >>]

FilterCall ==
    /\ fl.pc = "call"
    /\ fl' = [fl EXCEPT !.pc = "done",
                        !.filtered_train_index = filtered_train_index(fl.cfg, fl.hdulist),
                        !.filtered_test_index = filtered_test_index(fl.cfg, fl.hdulist)]
    /\ UNCHANGED <<np_lenient, gd, call, pc, loc, h5, fetches, exc>>

FilterNext == FilterCall

SpecFilter == FilterInit /\ [][FilterNext]_vars

(***************************************************************************)
(* SpecOrder: the fold of pairwise intersections of compile_apogee with    *)
(* the tuple of criteria handed to reduce in another order.                *)
(***************************************************************************)
\* a tuple in another order: position i holds the element order[i] of seq
Permute(seq, order) == [i \in 1 .. Len(seq) |-> seq[order[i]]]

\* the number of criteria in the tuple handed to reduce
NCriteria == Len(TrainCriteria(DefaultCfg, << >>))

\* orders of the criteria: the code's, every exchange of two criteria,
\* every rotation, and the reverse
CriteriaOrders ==
    {[k \in 1 .. NCriteria |-> IF k = i THEN j ELSE IF k = j THEN i ELSE k] :
        i \in 1 .. NCriteria, j \in 1 .. NCriteria}
    \cup {[k \in 1 .. NCriteria |-> ((k + r - 1) % NCriteria) + 1] : r \in 0 .. (NCriteria - 1)}
    \cup {[k \in 1 .. NCriteria |-> NCriteria + 1 - k]}

CodeOrder == [k \in 1 .. NCriteria |-> k]

\* rows of both bands, and rows that fail one criterion
OrderRows ==
    {CleanRow(250), CleanRow(150),
     [CleanRow(250) EXCEPT !.STARFLAG = 1], [CleanRow(250) EXCEPT !.ASPCAPFLAG = 1],
     [CleanRow(250) EXCEPT !.teff = 5501], [CleanRow(150) EXCEPT !.logg = -9999]}

\* the default cuts with each flag cut on or off
OrderCfgs ==
    {[DefaultCfg EXCEPT !.starflagcut = sf, !.aspcapflagcut = af] :
        sf \in BOOLEAN, af \in BOOLEAN}

OrderInit ==
    /\ np_lenient = TRUE
    /\ GapIdle
    /\ CompileIdle
    /\ \E cfg \in OrderCfgs, hdu \in Catalogs(OrderRows, MaxRows), order \in CriteriaOrders :
          fl = [pc |-> "call", cfg |-> cfg, hdulist |-> hdu, order |-> order,
                filtered_train_index |-> << >>, filtered_test_index |-> << >>]

\* lines 137-146 with the two tuples in the order fl.order
ReduceCall ==
    /\ fl.pc = "call"
    /\ fl' = [fl EXCEPT
                 !.pc = "done",
                 !.filtered_train_index =
                     reduce_intersect1d(Permute(TrainCriteria(fl.cfg, fl.hdulist), fl.order)),
                 !.filtered_test_index =
                     reduce_intersect1d(Permute(TestCriteria(fl.cfg, fl.hdulist), fl.order))]
    /\ UNCHANGED <<np_lenient, gd, call, pc, loc, h5, fetches, exc>>

OrderNext == ReduceCall

SpecOrder == OrderInit /\ [][OrderNext]_vars

(***************************************************************************)
(* SpecBands: the filter with the default settings on the ten-record       *)
(* catalogs of the band scenario.                                          *)
(***************************************************************************)
BandsInit ==
    /\ np_lenient = TRUE
    /\ GapIdle
    /\ CompileIdle
    /\ \E T \in TrainBandSets, n200 \in 0 .. 6, n99999 \in 0 .. 6, n100 \in 0 .. 4 :
          /\ n200 + n99999 <= 6
          /\ fl = [pc |-> "call", cfg |-> DefaultCfg,
                   hdulist |-> ScenarioCatalog(T, n200, n99999, n100),
                   filtered_train_index |-> << >>, filtered_test_index |-> << >>]

SpecBands == BandsInit /\ [][FilterNext]_vars


(***************************************************************************)
(* Spec: runs of compile_apogee and of compile_apogee_apstar with the      *)
(* default cuts, on every catalog, release and outcome of the fetches.     *)
(***************************************************************************)
Init ==
    /\ np_lenient \in BOOLEAN
    /\ GapIdle
    /\ FilterIdle
    /\ \E entry \in {"compile_apogee", "compile_apogee_apstar"},
          dr \in CompileDrs, hdu \in Catalogs(CompileRows, MaxCompileRows) :
          call = [entry |-> entry, cfg |-> [DefaultCfg EXCEPT !.dr = dr],
                  hdulist |-> hdu]
    /\ pc = "start"
    /\ loc = << >>
    /\ h5 = [tt \in {"train", "test"} |-> NoFile]
    /\ fetches = << >>
    /\ exc = ""

Next ==
    \/ ApogeeStart
    \/ ApogeeRecord
    \/ ApogeeWrite
    \/ ApstarStart
    \/ ApstarRecord
    \/ ApstarWrite

Spec == Init /\ [][Next]_vars

(***************************************************************************)
(* SpecGaia: runs of compile_gaia on every APOGEE catalog, Gaia table,     *)
(* cross-match, release and outcome of the fetches.                        *)
(***************************************************************************)
GaiaInit ==
    /\ np_lenient \in BOOLEAN
    /\ GapIdle
    /\ FilterIdle
    /\ \E dr \in CompileDrs, hdu \in Catalogs(GaiaApogeeRows, MaxCompileRows),
          tgas \in TgasTables(MaxGaiaRows) :
          call = [entry |-> "compile_gaia", cfg |-> [GaiaDefaultCfg EXCEPT !.apogee_dr = dr],
                  hdulist |-> hdu, tgas |-> tgas]
    /\ pc = "start"
    /\ loc = << >>
    /\ h5 = [tt \in {"train", "test"} |-> NoFile]
    /\ fetches = << >>
    /\ exc = ""

GaiaNext ==
    \/ GaiaStart
    \/ GaiaRecord
    \/ GaiaWrite

SpecGaia == GaiaInit /\ [][GaiaNext]_vars

(***************************************************************************)
(* The cross-matcher (astroNN.datasets.xmatch.xmatch), which compile_gaia  *)
(* calls at lines 570-571.  Positions are offsets within one small tile of *)
(* the sky at one declination, in units of 100 milliarcsec; the cosine of  *)
(* the tile's declination is the fraction cosnum / cosden.  On such a tile *)
(* the angular separation of two positions is the length of                *)
(* (dra * cos(dec), ddec); separations are kept squared and scaled by      *)
(* cosden squared, so that all arithmetic is exact.                        *)
(***************************************************************************)
\* milliarcsec in one unit of position, and units in one arcsec
MasPerUnit == 100
UnitsPerArcsec == 10

\* the tolerances a caller passes, in arcsec
MaxDists == {1, 2}

\* the tiles: at declination 0 (cosine 1) and at declination 60 (cosine 1/2)
Tiles == {[cosnum |-> 1, cosden |-> 1], [cosnum |-> 1, cosden |-> 2]}

\* step 1: a record of catalog B moved from its epoch to the epoch of
\* catalog A by its proper motion (milliarcsec / year, made units of
\* position), the motion in right ascension divided by cos(dec)
Propagate(b, dt, tile) ==
    [ra |-> b.ra + (b.pmra * dt * tile.cosden) \div (MasPerUnit * tile.cosnum),
     dec |-> b.dec + (b.pmdec * dt) \div MasPerUnit]

\* step 2: the separation of two positions of the tile (squared, scaled)
Separation(p, q, tile) ==
    ((p.ra - q.ra) * tile.cosnum) * ((p.ra - q.ra) * tile.cosnum)
    + ((p.dec - q.dec) * tile.cosden) * ((p.dec - q.dec) * tile.cosden)

\* a tolerance in arcsec on the scale of Separation
Tolerance(maxdist, tile) ==
    (maxdist * UnitsPerArcsec * tile.cosden) * (maxdist * UnitsPerArcsec * tile.cosden)

\* (mutant) the first candidate within the tolerance, if there is one,
\* instead of the nearest
Nearest_first_within(seps, tol) ==
    IF \E c \in 1 .. Len(seps) : seps[c] <= tol
    THEN CHOOSE c \in 1 .. Len(seps) :
             seps[c] <= tol /\ \A d \in 1 .. (c - 1) : seps[d] > tol
    ELSE 1

\* step 3: the candidate with the least separation, the lowest index among
\* equals (1-based position in the list of separations)
Nearest(seps, tol) ==
    CHOOSE c \in 1 .. Len(seps) :
        /\ \A d \in 1 .. Len(seps) : seps[c] <= seps[d]
        /\ \A d \in 1 .. (c - 1) : seps[d] > seps[c]

\* (mutant) a pair exactly at the tolerance is not accepted
Accepted_below(sep, tol) == sep < tol

\* step 3: a pair is accepted if its separation is within the tolerance
Accepted(sep, tol) == sep <= tol

\* steps 1-4: the accepted pairs in the order of the query records, each
\* with the 0-based index into catalog A (m1), into catalog B (m2) and the
\* separation.  swap tells which catalog is the query set: A, or B if set.
xmatch(cat1, cat2, maxdist, dt, tile, swap) ==
    LET moved == [j \in 1 .. Len(cat2) |-> Propagate(cat2[j], dt, tile)]
        query == IF swap THEN moved ELSE cat1
        other == IF swap THEN cat1 ELSE moved
        tol == Tolerance(maxdist, tile)
        seps(q) == [c \in 1 .. Len(other) |-> Separation(query[q], other[c], tile)]
        matched == SelectSeq([q \in 1 .. Len(query) |-> q],
                             LAMBDA q : /\ other # << >>
                                        /\ Accepted(seps(q)[Nearest(seps(q), tol)], tol))
    IN  [i \in 1 .. Len(matched) |->
            LET q == matched[i]
                c == Nearest(seps(q), tol)
            IN  [m1 |-> IF swap THEN c - 1 ELSE q - 1,
                 m2 |-> IF swap THEN q - 1 ELSE c - 1,
                 sep |-> seps(q)[c]]]

\* records of catalog A: two that a record between them is equally far
\* from, and one apart
XmatchRowsA == {[ra |-> 0, dec |-> 0], [ra |-> 40, dec |-> 0], [ra |-> 100, dec |-> 0]}

\* records of catalog B: on a record of A, at 2 arcsec from one (and, at
\* declination 0, from two), just beyond 2 arcsec, and records that their
\* proper motion brings near a record of A
XmatchRowsB ==
    {[ra |-> 0, dec |-> 0, pmra |-> 0, pmdec |-> 0],
     [ra |-> 20, dec |-> 0, pmra |-> 0, pmdec |-> 0],
     [ra |-> 0, dec |-> 21, pmra |-> 0, pmdec |-> 0],
     [ra |-> 30, dec |-> 0, pmra |-> 100, pmdec |-> 0],
     [ra |-> 100, dec |-> 15, pmra |-> 0, pmdec |-> 100],
     [ra |-> 110, dec |-> 0, pmra |-> 0, pmdec |-> 0]}

\* epoch1 - epoch2 of the call in compile_gaia: 2000 - 2015
EpochDifference == 2000 - 2015

(***************************************************************************)
(* SpecXmatch: calls of the cross-matcher on every pair of catalogs.       *)
(***************************************************************************)
XmatchInit ==
    /\ np_lenient = TRUE
    /\ GapIdle
    /\ FilterIdle
    /\ \E cat1 \in Catalogs(XmatchRowsA, MaxCatalog), cat2 \in Catalogs(XmatchRowsB, MaxCatalog),
          maxdist \in MaxDists, tile \in Tiles, swap \in BOOLEAN :
          call = [entry |-> "xmatch", cat1 |-> cat1, cat2 |-> cat2, maxdist |-> maxdist,
                  dt |-> EpochDifference, tile |-> tile, swap |-> swap]
    /\ pc = "start"
    /\ loc = << >>
    /\ h5 = [tt \in {"train", "test"} |-> NoFile]
    /\ fetches = << >>
    /\ exc = ""

XmatchCall ==
    /\ pc = "start" /\ call.entry = "xmatch"
    /\ loc' = xmatch(call.cat1, call.cat2, call.maxdist, call.dt, call.tile, call.swap)
    /\ pc' = "done"
    /\ UNCHANGED <<np_lenient, gd, fl, call, h5, fetches, exc>>

XmatchNext == XmatchCall

SpecXmatch == XmatchInit /\ [][XmatchNext]_vars

(***************************************************************************)
(* Claims about gap_delete (checked under SpecGap).                        *)
(***************************************************************************)
\* the samples of an output are in the order they had in the input
KeepsOrder(out) == \A j \in 1 .. (Len(out) - 1) : out[j] < out[j + 1]

\* the positions of the input that are missing from the output
Removed(inp, out) == {inp[i] : i \in 1 .. Len(inp)} \ {out[j] : j \in 1 .. Len(out)}

\* the four ranges of a release as the documentation of the releases gives
\* them, each <<first index, index after the last>>; the fourth range of
\* DR13 ends where the input ends
ReleaseGaps(dr, n) ==
    IF dr = 13
    THEN {<<0, 322>>, <<3243, 3648>>, <<6049, 6412>>, <<8306, n>>}
    ELSE {<<0, 246>>, <<3274, 3585>>, <<6080, 6344>>, <<8335, 8575>>}

GapPositions(gaps) == UNION {g[1] .. (g[2] - 1) : g \in gaps}

RECURSIVE SumWidths(_)
SumWidths(gaps) ==
    IF gaps = {}
    THEN 0
    ELSE LET g == CHOOSE x \in gaps : TRUE
         IN  (g[2] - g[1]) + SumWidths(gaps \ {g})

\* C1 (as stated): for dr 13 and 14 and every input spectrum, gap_delete
\* returns an array of the input's length minus the widths of the four gaps
\* of the release, the removed positions are exactly those four ranges of
\* the original indices, and the surviving samples keep their order.
C1_EveryInputLosesExactlyTheGaps ==
    (gd.pc = "done" /\ apogee_default_dr(gd.dr) \in {13, 14}) =>
        LET n == Len(gd.single_spec)
            gaps == ReleaseGaps(apogee_default_dr(gd.dr), n)
        IN  /\ gd.result.raised = ""
            /\ Len(gd.result.value) = n - SumWidths(gaps)
            /\ Removed(gd.single_spec, gd.result.value) = GapPositions(gaps)
            /\ KeepsOrder(gd.result.value)

\* C2: an 8575-sample input with dr=14 loses exactly the index ranges
\* [0,246), [3274,3585), [6080,6344) and [8335,8575) and comes back with
\* 7514 samples.
C2_Dr14On8575Gives7514 ==
    (gd.pc = "done" /\ gd.dr = Some(14) /\ Len(gd.single_spec) = 8575) =>
        /\ gd.result.raised = ""
        /\ Len(gd.result.value) = 7514
        /\ Removed(gd.single_spec, gd.result.value) =
              (0 .. 245) \cup (3274 .. 3584) \cup (6080 .. 6343) \cup (8335 .. 8574)
        /\ KeepsOrder(gd.result.value)

C2_Witness ==
    /\ gd.pc = "done" /\ gd.dr = Some(14) /\ Len(gd.single_spec) = 8575
    /\ gd.result.raised = ""
    /\ Len(gd.result.value) = 7514
    /\ gd.result.value[1] = 246
    /\ gd.result.value[7514] = 8334

(***************************************************************************)
(* Claims about the filter (checked under SpecFilter and SpecBands).       *)
(***************************************************************************)
\* C7: the train and the test index set share no index whenever the SNR
\* bands do not overlap (SNRtest_high <= SNRtrain_low), for every catalog
\* and every setting of the flag cuts.
C7_BandsApartGiveDisjointIndices ==
    (fl.pc = "done" /\ fl.cfg.SNRtest_high <= fl.cfg.SNRtrain_low) =>
        Elems(fl.filtered_train_index) \cap Elems(fl.filtered_test_index) = {}

C7_Witness ==
    /\ fl.pc = "done"
    /\ fl.cfg.SNRtest_high <= fl.cfg.SNRtrain_low
    /\ fl.filtered_train_index # << >>
    /\ fl.filtered_test_index # << >>

\* the positions of the scenario's records by band
InTrainBand(hdu) == {i \in 0 .. (Len(hdu) - 1) : hdu[i + 1].SNR >= 200 /\ hdu[i + 1].SNR <= 99999}
InTestBand(hdu) == {i \in 0 .. (Len(hdu) - 1) : hdu[i + 1].SNR >= 100 /\ hdu[i + 1].SNR < 200}

NoneOnABound(hdu) == \A i \in 1 .. Len(hdu) : hdu[i].SNR \notin {100, 200, 99999}

RemainingAgree(cfg, crit, n) ==
    LET remaining == {k \in 1 .. Len(crit) :
                         /\ ~(k = 1 /\ ~cfg.starflagcut)
                         /\ ~(k = 2 /\ ~cfg.aspcapflagcut)}
    IN  {i \in 0 .. (n - 1) : \A k \in remaining : i \in Elems(crit[k])}

\* C10: a switched-off flag criterion contributes every row index, and the
\* filter result is then the intersection of the remaining criteria alone.
C10_DisabledFlagDoesNotConstrain ==
    (fl.pc = "done" /\ (~fl.cfg.starflagcut \/ ~fl.cfg.aspcapflagcut)) =>
        LET n == Len(fl.hdulist)
        IN  /\ ~fl.cfg.starflagcut =>
                  Elems(DR_fitlered_starflag(fl.cfg, fl.hdulist)) = 0 .. (n - 1)
            /\ ~fl.cfg.aspcapflagcut =>
                  Elems(DR_fitlered_aspcapflag(fl.cfg, fl.hdulist)) = 0 .. (n - 1)
            /\ Elems(fl.filtered_train_index) =
                  RemainingAgree(fl.cfg, TrainCriteria(fl.cfg, fl.hdulist), n)
            /\ Elems(fl.filtered_test_index) =
                  RemainingAgree(fl.cfg, TestCriteria(fl.cfg, fl.hdulist), n)

\* a flagged row is selected with the starflag cut switched off
C10_Witness ==
    /\ fl.pc = "done"
    /\ ~fl.cfg.starflagcut
    /\ \E j \in 1 .. Len(fl.filtered_train_index) :
          fl.hdulist[fl.filtered_train_index[j] + 1].STARFLAG = 1

(***************************************************************************)
(* Claims about compile_apogee and compile_apogee_apstar (checked under    *)
(* Spec).                                                                  *)
(***************************************************************************)
Partitions == {"train", "test"}

\* the files compile_apogee has written and closed
ApogeeTables ==
    {tt \in Partitions : call.entry = "compile_apogee" /\ h5[tt].exists /\ ~h5[tt].open}

\* the positions a gap-removed spectrum has lost
Lost(s) == (0 .. (s.pixels - 1)) \ Elems(s.flux)

\* C3 (as stated): every spectrum and best-fit spectrum in a table of
\* compile_apogee has lost the gap ranges of the release the run was
\* configured with: the DR13 ranges in a run with dr=13, the DR14 ranges in
\* a run with dr=14.
C3_GapsOfTheConfiguredRelease ==
    \A tt \in ApogeeTables :
        \A s \in Elems(h5[tt].datasets.spectra) \cup Elems(h5[tt].datasets.spectrabestfit) :
            s.pixels = ApStarPixels =>
                Lost(s) = GapPositions(ReleaseGaps(apogee_default_dr(call.cfg.dr), s.pixels))

\* C4 (as stated): in every table of compile_apogee, for every row i, the
\* values at position i of all columns come from one catalog row, the row
\* recorded at position i of the index column, whatever fetches failed.
C4_RowsAlignedWithIndex ==
    \A tt \in ApogeeTables :
        LET d == h5[tt].datasets
        IN  \A i \in 1 .. Len(d.index) :
                /\ i <= Len(d.spectra) /\ d.spectra[i].row = d.index[i]
                /\ i <= Len(d.spectrabestfit) /\ d.spectrabestfit[i].row = d.index[i]
                /\ \A n \in ScalarNames :
                      i <= Len(d.cols[n]) /\ d.cols[n][i].row = d.index[i]

\* the number of fetches made for a partition that returned no warning
Succeeded(tt) ==
    Cardinality({i \in 1 .. Len(fetches) :
                    fetches[i].tt = tt /\ fetches[i].warningflag = None})

\* C5 (as stated): a record whose fetch returns a warning contributes to no
\* column: after the run every column of a table, index included, has one
\* length, the number of records whose fetch succeeded.
C5_FailedFetchInNoColumn ==
    (pc = "done" /\ call.entry = "compile_apogee") =>
        \A tt \in ApogeeTables :
            LET d == h5[tt].datasets
            IN  /\ Len(d.spectra) = Succeeded(tt)
                /\ Len(d.spectrabestfit) = Succeeded(tt)
                /\ Len(d.index) = Succeeded(tt)
                /\ \A n \in ScalarNames : Len(d.cols[n]) = Succeeded(tt)

\* C9 (as stated): in every entry point, compile_apogee_apstar included, no
\* catalog index is processed both for the train and for the test
\* partition.
C9_NoIndexInBothPartitions ==
    \A i, j \in 1 .. Len(fetches) :
        fetches[i].tt # fetches[j].tt => fetches[i].index # fetches[j].index

(***************************************************************************)
(* Claims about compile_gaia (checked under SpecGaia).                     *)
(***************************************************************************)
\* the files compile_gaia has created and filled
GaiaTables ==
    {tt \in Partitions :
        call.entry = "compile_gaia" /\ h5[tt].exists /\ h5[tt].datasets # << >>}

\* C6 (as stated): in each table compile_gaia writes, the columns spectra,
\* teff and absmag have one length and row i of each describes the same
\* matched APOGEE record, whatever fetches succeeded or failed.
C6_GaiaColumnsAligned ==
    \A tt \in GaiaTables :
        LET d == h5[tt].datasets
        IN  /\ Len(d.spectra) = Len(d.teff)
            /\ Len(d.teff) = Len(d.absmag)
            /\ \A i \in 1 .. Len(d.spectra) :
                  /\ d.spectra[i].row = d.teff[i].row
                  /\ d.spectra[i].row = d.absmag[i].mag.row

(***************************************************************************)
(* Claims about the order of the criteria (checked under SpecOrder).       *)
(***************************************************************************)
\* C11: whatever order the criteria are handed to the fold of pairwise
\* intersections in, the train and the test index sequence are the ones
\* the code's own order gives.
C11_OrderOfCriteriaIsImmaterial ==
    fl.pc = "done" =>
        /\ fl.filtered_train_index = filtered_train_index(fl.cfg, fl.hdulist)
        /\ fl.filtered_test_index = filtered_test_index(fl.cfg, fl.hdulist)

\* a fold in another order than the code's whose result keeps some rows of
\* the catalog and drops others
C11_Witness ==
    /\ fl.pc = "done"
    /\ fl.order # CodeOrder
    /\ fl.filtered_train_index # << >>
    /\ Len(fl.filtered_train_index) < Len(fl.hdulist)

StrictlyIncreasing(ar) == \A i \in 1 .. (Len(ar) - 1) : ar[i] < ar[i + 1]

\* C12: the index sequences the filter returns are strictly increasing
\* (catalog row order, no index twice), for every order of the criteria and
\* with the flag criteria on or replaced by the full index range.
C12_ResultInRowOrder ==
    fl.pc = "done" =>
        /\ StrictlyIncreasing(fl.filtered_train_index)
        /\ StrictlyIncreasing(fl.filtered_test_index)

\* two rows selected, with a flag criterion replaced by the full range and
\* the criteria in another order than the code's
C12_Witness ==
    /\ fl.pc = "done"
    /\ fl.order # CodeOrder
    /\ ~fl.cfg.starflagcut
    /\ Len(fl.filtered_train_index) >= 2

(***************************************************************************)
(* Claims about the release and the length in gap_delete (checked under    *)
(* SpecGap).                                                               *)
(***************************************************************************)
\* C13: a call of gap_delete with a release other than 13 and 14 ends in an
\* error and gives no array back; a call without a release does what a
\* call with release 14 does.
C13_OtherReleaseIsAnError ==
    gd.pc = "done" =>
        /\ (gd.dr \notin {None, Some(13), Some(14)}) =>
              (gd.result.raised = "ValueError" /\ gd.result.value = << >>)
        /\ (gd.dr = None) =>
              gd.result = gap_delete(gd.single_spec, Some(14), np_lenient)

\* a call with release 12 on a full spectrum has ended
C13_Witness ==
    /\ gd.pc = "done"
    /\ gd.dr = Some(12)
    /\ Len(gd.single_spec) = ApStarPixels
    /\ gd.result.raised = "ValueError"

\* a call without a release on a full spectrum has removed the DR14 gaps
C13_WitnessDefault ==
    /\ gd.pc = "done"
    /\ gd.dr = None
    /\ Len(gd.single_spec) = ApStarPixels
    /\ Len(gd.result.value) = 7514

\* the length of a spectrum of a release after its four gaps are removed
FixedLength(dr) == IF dr = 13 THEN 7216 ELSE 7514

\* C15 (as stated): every array gap_delete returns has the fixed length of
\* the release asked for; an input that would give another length is
\* rejected.
C15_OutputHasTheFixedLength ==
    (gd.pc = "done" /\ gd.result.raised = "") =>
        Len(gd.result.value) = FixedLength(apogee_default_dr(gd.dr))

(***************************************************************************)
(* Claims about the release a run is configured with (checked under        *)
(* SpecGaia).                                                              *)
(***************************************************************************)
\* the release is one compile_gaia ends with a ValueError for (line 606)
Unsupported(dr) == apogee_default_dr(dr) # 14

\* C14 (as stated): a run configured with a release the entry point does
\* not support aborts before any output: neither the train nor the test
\* file is ever created in such a run, whatever the catalogs hold, an empty
\* train partition included.
C14_NoOutputWithUnsupportedRelease ==
    (call.entry = "compile_gaia" /\ Unsupported(call.cfg.apogee_dr)) =>
        \A tt \in {"train", "test"} : ~h5[tt].exists

(***************************************************************************)
(* Claims about records that fail and partitions that are empty in         *)
(* compile_apogee (checked under Spec).                                    *)
(***************************************************************************)
\* C16 (as stated): a record whose gap-removed spectrum has not the fixed
\* length of the release gap_delete was called with is skipped and nothing
\* else happens: the run is not ended by it, and no spectrum of another
\* length is ever in a written table.
C16_OddLengthRecordOnlySkipped ==
    call.entry = "compile_apogee" =>
        /\ pc # "raised"
        /\ \A tt \in ApogeeTables :
              \A s \in Elems(h5[tt].datasets.spectra) \cup Elems(h5[tt].datasets.spectrabestfit) :
                  Len(s.flux) = FixedLength(apogee_default_dr(ApogeeGapDr(call.cfg)))

\* the catalog rows fetched for a partition, in the order of the fetches
Fetched(tt) ==
    LET f == SelectSeq(fetches, LAMBDA x : x.tt = tt)
    IN  [i \in 1 .. Len(f) |-> f[i].index]

\* a step of compile_apogee in which a fetch returned a warning
WarnedFetch ==
    /\ call.entry = "compile_apogee"
    /\ Len(fetches') = Len(fetches) + 1
    /\ fetches'[Len(fetches')].warningflag # None

\* C17: a fetch that returns a warning does not end the run of
\* compile_apogee: the loop goes on to the next record with the lists as
\* they were; a run is only ever ended by a spectrum that was delivered; and
\* a run that has finished has fetched every selected record of both
\* partitions and written and closed both tables.
C17_FailedFetchDoesNotCancel ==
    /\ [][WarnedFetch =>
             /\ pc' = "loop" /\ exc' = ""
             /\ loc'.part.k = loc.part.k + 1
             /\ loc'.lists = loc.lists]_vars
    /\ []((call.entry = "compile_apogee" /\ pc = "raised") =>
             \E i \in 1 .. Len(fetches) : fetches[i].warningflag = None)
    /\ []((call.entry = "compile_apogee" /\ pc = "done") =>
             /\ Fetched("train") = loc.filtered_train_index
             /\ Fetched("test") = loc.filtered_test_index
             /\ \A tt \in Partitions :
                   h5[tt].exists /\ ~h5[tt].open /\ h5[tt].datasets # << >>)

\* a finished run in which the first train record's fetch returned a warning
\* and a later record of the partition was fetched and stored
C17_Witness ==
    /\ call.entry = "compile_apogee" /\ pc = "done"
    /\ Len(fetches) >= 2
    /\ fetches[1].warningflag # None /\ fetches[1].tt = "train"
    /\ fetches[2].warningflag = None /\ fetches[2].tt = "train"
    /\ Len(h5["train"].datasets.spectra) = 1
    /\ h5["test"].exists

\* the selected rows of a partition
Selected(tt) == IF tt = "train" THEN loc.filtered_train_index ELSE loc.filtered_test_index

\* the passes of the loop over tt that have ended
Passed(tt) == pc = "done" \/ (tt = "train" /\ pc = "loop" /\ loc.part.tt = "test")

\* C18: an empty selection is no error in compile_apogee: a run is never
\* ended while it works on an empty partition, and once the pass of an
\* empty partition is over its table is written and closed with no row in
\* any column.
C18_EmptyPartitionIsWritten ==
    (call.entry = "compile_apogee" /\ pc # "start") =>
        /\ (pc = "raised" => loc.part.filtered_index # << >>)
        /\ \A tt \in Partitions :
              (Passed(tt) /\ Selected(tt) = << >>) =>
                  LET d == h5[tt].datasets
                  IN  /\ h5[tt].exists /\ ~h5[tt].open
                      /\ d.spectra = << >> /\ d.spectrabestfit = << >>
                      /\ d.index = << >>
                      /\ \A n \in ScalarNames : d.cols[n] = << >>

\* a finished run on a catalog with rows, none of which is selected for
\* the train partition, while the test partition has a row
C18_Witness ==
    /\ call.entry = "compile_apogee" /\ pc = "done"
    /\ call.hdulist # << >>
    /\ loc.filtered_train_index = << >>
    /\ h5["train"].exists /\ h5["train"].datasets.spectra = << >>
    /\ Len(h5["test"].datasets.spectra) = 1

(***************************************************************************)
(* Claims about the cross-matcher (checked under SpecXmatch).              *)
(***************************************************************************)
\* the query records and the candidates of a call, the records of catalog
\* B at the epoch of catalog A
XmatchMoved == [j \in 1 .. Len(call.cat2) |-> Propagate(call.cat2[j], call.dt, call.tile)]
XmatchQuery == IF call.swap THEN XmatchMoved ELSE call.cat1
XmatchOther == IF call.swap THEN call.cat1 ELSE XmatchMoved

\* the 1-based positions of the query record and of the candidate of a pair
QueryOf(p) == IF call.swap THEN p.m2 + 1 ELSE p.m1 + 1
CandidateOf(p) == IF call.swap THEN p.m1 + 1 ELSE p.m2 + 1

\* how far a query record is from a candidate
SepOf(q, c) == Separation(XmatchQuery[q], XmatchOther[c], call.tile)

WithinMaxdist(q, c) == SepOf(q, c) <= Tolerance(call.maxdist, call.tile)

\* C19: every returned pair is of two records no farther apart than
\* maxdist, and carries their separation; and every query record with a
\* candidate within maxdist is in a returned pair.
C19_PairsRespectTheTolerance ==
    (call.entry = "xmatch" /\ pc = "done") =>
        /\ \A i \in 1 .. Len(loc) :
              /\ loc[i].sep = SepOf(QueryOf(loc[i]), CandidateOf(loc[i]))
              /\ WithinMaxdist(QueryOf(loc[i]), CandidateOf(loc[i]))
        /\ \A q \in 1 .. Len(XmatchQuery) :
              (\E c \in 1 .. Len(XmatchOther) : WithinMaxdist(q, c)) =>
                  \E i \in 1 .. Len(loc) : QueryOf(loc[i]) = q

\* a call that returns a pair exactly maxdist apart and leaves out a query
\* record that has no candidate within maxdist
C19_Witness ==
    /\ call.entry = "xmatch" /\ pc = "done"
    /\ \E i \in 1 .. Len(loc) : loc[i].sep = Tolerance(call.maxdist, call.tile)
    /\ Len(loc) < Len(XmatchQuery)
    /\ XmatchOther # << >>

\* C20: no query record is in two returned pairs; the candidate of a pair
\* is as near to the query record as any candidate of the other catalog;
\* and a query record whose nearest candidate is beyond the tolerance is in
\* no pair.
C20_NearestCandidateOnly ==
    (call.entry = "xmatch" /\ pc = "done") =>
        /\ \A i, j \in 1 .. Len(loc) : QueryOf(loc[i]) = QueryOf(loc[j]) => i = j
        /\ \A i \in 1 .. Len(loc) :
              \A c \in 1 .. Len(XmatchOther) :
                  SepOf(QueryOf(loc[i]), CandidateOf(loc[i])) <= SepOf(QueryOf(loc[i]), c)
        /\ \A q \in 1 .. Len(XmatchQuery) :
              (\A c \in 1 .. Len(XmatchOther) : ~WithinMaxdist(q, c)) =>
                  \A i \in 1 .. Len(loc) : QueryOf(loc[i]) # q

\* a call in which a query record has two candidates within the tolerance,
\* the second of them the nearer, and is paired with that one
C20_Witness ==
    /\ call.entry = "xmatch" /\ pc = "done"
    /\ \E i \in 1 .. Len(loc) :
          /\ CandidateOf(loc[i]) = 2
          /\ WithinMaxdist(QueryOf(loc[i]), 1)
          /\ SepOf(QueryOf(loc[i]), 2) < SepOf(QueryOf(loc[i]), 1)

(***************************************************************************)
(* Claims about the criteria of the filter (checked under SpecFilter).     *)
(***************************************************************************)
\* what a row has to satisfy apart from the SNR band
PassesCommonCuts(cfg, r) ==
    /\ cfg.starflagcut => r.STARFLAG = 0
    /\ cfg.aspcapflagcut => r.ASPCAPFLAG = 0
    /\ cfg.tefflow <= r.teff /\ r.teff <= cfg.teffhigh
    /\ r.VSCATTER < cfg.vscattercut
    /\ r.Fe > cfg.ironlow
    /\ r.logg # -9999
    /\ r.LOCATION_ID > 1

\* C23: a row index is in the train index set exactly if the row passes the
\* flag cuts that are on, tefflow <= teff <= teffhigh, vscatter below the
\* cut, Fe above ironlow, logg not -9999, location_id above 1 and
\* SNRtrain_low < SNR < SNRtrain_high; and in the test index set exactly if
\* it passes the same with the test SNR bounds.
C23_SelectedIffAllCriteria ==
    fl.pc = "done" =>
        \A i \in 0 .. (Len(fl.hdulist) - 1) :
            LET r == fl.hdulist[i + 1]
            IN  /\ (i \in Elems(fl.filtered_train_index)) <=>
                      /\ PassesCommonCuts(fl.cfg, r)
                      /\ fl.cfg.SNRtrain_low < r.SNR /\ r.SNR < fl.cfg.SNRtrain_high
                /\ (i \in Elems(fl.filtered_test_index)) <=>
                      /\ PassesCommonCuts(fl.cfg, r)
                      /\ fl.cfg.SNRtest_low < r.SNR /\ r.SNR < fl.cfg.SNRtest_high

\* a catalog in which a row on the upper temperature bound is selected for
\* training and a row on the velocity-scatter cut is not
C23_Witness ==
    /\ fl.pc = "done"
    /\ Len(fl.hdulist) = 2
    /\ fl.hdulist[1].teff = fl.cfg.teffhigh
    /\ fl.hdulist[2].VSCATTER = fl.cfg.vscattercut
    /\ fl.filtered_train_index = <<0>>

(***************************************************************************)
(* Claims about the records and the files of compile_gaia (checked under   *)
(* SpecGaia).                                                              *)
(***************************************************************************)
\* C26 (as stated): a matched record whose spectrum file was not on disk
\* and was downloaded has its spectrum in the table of its partition, as a
\* record whose file was on disk has.
C26_DownloadedSpectrumIsStored ==
    \A tt \in GaiaTables :
        \A i \in 1 .. Len(fetches) :
            (fetches[i].tt = tt /\ fetches[i].file \in {"local", "downloaded"}) =>
                \E j \in 1 .. Len(h5[tt].datasets.spectra) :
                    h5[tt].datasets.spectra[j].row = fetches[i].index

\* the cross-matched pairs, each the catalog row of the APOGEE record and
\* the Gaia record
MatchedPairs ==
    [i \in 1 .. Len(loc.m1) |->
        [row |-> loc.filtered_apogee_index[loc.m1[i] + 1], gaia |-> loc.gaia[loc.m2[i] + 1]]]

\* the pairs a table holds a row for: the APOGEE row its magnitude is from
\* and the Gaia record its parallax is from
PlacedPairs(tt) ==
    LET a == h5[tt].datasets.absmag
    IN  [j \in 1 .. Len(a) |-> [row |-> a[j].mag.row, source |-> a[j].parallax]]

\* the pairs that belong in a table: those with parallax_error / parallax
\* at least a tenth in train, the others in test
BelongingPairs(tt) ==
    LET inTrain(p) == 10 * p.gaia.parallax_error >= p.gaia.parallax
        sel == SelectSeq(MatchedPairs, LAMBDA p : IF tt = "train" THEN inTrain(p) ELSE ~inTrain(p))
    IN  [j \in 1 .. Len(sel) |-> [row |-> sel[j].row, source |-> sel[j].gaia.source]]

\* C28: each table of compile_gaia holds exactly the cross-matched pairs
\* that belong in it, train those with a fractional parallax error of 0.1
\* or more and test those below 0.1; after both are written every pair is
\* in one of them and none in both.
C28_EveryPairInItsTable ==
    call.entry = "compile_gaia" =>
        /\ \A tt \in GaiaTables : PlacedPairs(tt) = BelongingPairs(tt)
        /\ pc = "done" =>
              /\ Len(PlacedPairs("train")) + Len(PlacedPairs("test")) = Len(MatchedPairs)
              /\ Elems(PlacedPairs("train")) \cap Elems(PlacedPairs("test")) = {}

\* a finished run with a pair exactly on 0.1 in train and a pair below it
\* in test
C28_Witness ==
    /\ call.entry = "compile_gaia" /\ pc = "done"
    /\ Len(PlacedPairs("train")) = 1 /\ Len(PlacedPairs("test")) = 1
    /\ \E i \in 1 .. Len(MatchedPairs) :
          10 * MatchedPairs[i].gaia.parallax_error = MatchedPairs[i].gaia.parallax

\* C30 (as stated): a file a compile function has opened for writing is
\* closed before the function opens the next file or returns.
C30_FileClosedBeforeTheNext ==
    (call.entry = "compile_gaia" /\ pc \in {"loop", "done"}) =>
        /\ (loc.part.tt = "test" /\ h5["train"].exists) => ~h5["train"].open
        /\ pc = "done" => \A tt \in Partitions : ~h5[tt].open


(***************************************************************************)
(* astroNN.NN.test.batch_predictions.  The spectrum of row r is r itself,  *)
(* so that a prediction says which row it was made from; the network is a  *)
(* fixed function of the row.  The run is cut at its calls of              *)
(* model.predict: one step per pass of the loop, one for the last call.    *)
(***************************************************************************)
\* the most spectra and the largest batch size batch_predictions is given
MaxSpectra == 5
MaxBatch == 4

\* the summaries the labels are de-normalised with: one entry per label
LabelSummaries ==
    {[std |-> <<1, 2>>, mean |-> <<0, 5>>], [std |-> <<3>>, mean |-> <<7>>]}

\* model.predict on one spectrum: the normalised labels the network gives
ModelOutput(row, num_labels) == [k \in 1 .. num_labels |-> row + k]

\* model.predict(inputs): one row of normalised labels per input row
model_predict(inputs, num_labels) ==
    [j \in 1 .. Len(inputs) |-> ModelOutput(inputs[j], num_labels)]

\* (lb_norm * std_labels) + mean_labels, label by label in every row
denormalize(lb_norm, std_labels, mean_labels) ==
    [j \in 1 .. Len(lb_norm) |->
        [k \in 1 .. Len(std_labels) |-> (lb_norm[j][k] * std_labels[k]) + mean_labels[k]]]

\* np.zeros((n, num_labels))
np_zeros(n, num_labels) == [j \in 1 .. n |-> [k \in 1 .. num_labels |-> 0]]

\* arr[start:stop] for 0 <= start: the rows start .. stop-1 that exist
Slice(arr, start, stop) ==
    SubSeq(arr, start + 1, IF stop < Len(arr) THEN stop ELSE Len(arr))

\* predictions[start:start+len(rows)] = rows
AssignSlice(predictions, start, rows) ==
    [j \in 1 .. Len(predictions) |->
        IF j > start /\ j <= start + Len(rows) THEN rows[j - start] ELSE predictions[j]]

\* what model.predict does with a batch of no rows is up to the installed
\* keras: it gives no rows back, or it raises
EmptyPredicts == {"empty", "raises"}

PredictInit ==
    /\ np_lenient = TRUE
    /\ GapIdle
    /\ FilterIdle
    /\ \E n \in 1 .. MaxSpectra, batch_size \in 1 .. MaxBatch, s \in LabelSummaries,
          e \in EmptyPredicts :
          call = [entry |-> "batch_predictions", spectra |-> py_range(n),
                  batch_size |-> batch_size, num_labels |-> Len(s.std),
                  std_labels |-> s.std, mean_labels |-> s.mean, empty_predict |-> e]
    /\ pc = "start"
    /\ loc = << >>
    /\ h5 = [tt \in {"train", "test"} |-> NoFile]
    /\ fetches = << >>
    /\ exc = ""

\* lines 24-25: the result starts as zeros, i as 0
PredictStart ==
    /\ pc = "start" /\ call.entry = "batch_predictions"
    /\ loc' = [predictions |-> np_zeros(Len(call.spectra), call.num_labels),
               i |-> 0, passes |-> 0, calls |-> << >>]
    /\ pc' = "loop"
    /\ UNCHANGED <<np_lenient, gd, fl, call, h5, fetches, exc>>

\* lines 26-28: one pass of the loop over range(len(spectra) // batch_size)
PredictBatch ==
    /\ pc = "loop" /\ call.entry = "batch_predictions"
    /\ loc.passes < Len(call.spectra) \div call.batch_size
    /\ LET i == loc.passes
           inputs == Slice(call.spectra, i * call.batch_size, (i + 1) * call.batch_size)
           rows == denormalize(model_predict(inputs, call.num_labels),
                               call.std_labels, call.mean_labels)
       IN  loc' = [predictions |-> AssignSlice(loc.predictions, i * call.batch_size, rows),
                   i |-> i, passes |-> i + 1, calls |-> Append(loc.calls, inputs)]
    /\ UNCHANGED <<np_lenient, gd, fl, call, pc, h5, fetches, exc>>

\* lines 29-31: the rows from (i + 1) * batch_size on, with the i the loop
\* has left behind
PredictRest ==
    /\ pc = "loop" /\ call.entry = "batch_predictions"
    /\ loc.passes = Len(call.spectra) \div call.batch_size
    /\ LET start == (loc.i + 1) * call.batch_size
           inputs == Slice(call.spectra, start, Len(call.spectra))
           rows == denormalize(model_predict(inputs, call.num_labels),
                               call.std_labels, call.mean_labels)
       IN  IF inputs = << >> /\ call.empty_predict = "raises"
           THEN /\ pc' = "raised"
                /\ exc' = "Exception"
                /\ loc' = [loc EXCEPT !.calls = Append(@, inputs)]
           ELSE /\ pc' = "done"
                /\ exc' = exc
                /\ loc' = [loc EXCEPT !.predictions = AssignSlice(@, start, rows),
                                      !.calls = Append(@, inputs)]
    /\ UNCHANGED <<np_lenient, gd, fl, call, h5, fetches>>

PredictNext == PredictStart \/ PredictBatch \/ PredictRest

(***************************************************************************)
(* SpecPredict: calls of batch_predictions on every number of spectra and  *)
(* batch size.                                                             *)
(***************************************************************************)
SpecPredict == PredictInit /\ [][PredictNext]_vars

(***************************************************************************)
(* Claims about batch_predictions (checked under SpecPredict).             *)
(***************************************************************************)
\* the number of calls of model.predict that were given the row
TimesPredicted(row) ==
    Cardinality({c \in 1 .. Len(loc.calls) : row \in Elems(loc.calls[c])})

\* C24 (as stated): for every number of spectra n >= 1 and batch size
\* b >= 1 batch_predictions returns, every row of its result holds the
\* de-normalised prediction made from the spectrum of that row, and each
\* row was given to exactly one call of model.predict.
C24_EveryRowPredictedOnce ==
    (call.entry = "batch_predictions" /\ pc \notin {"start", "loop"}) =>
        /\ pc = "done"
        /\ \A r \in 1 .. Len(call.spectra) :
              /\ TimesPredicted(call.spectra[r]) = 1
              /\ <<loc.predictions[r]>> =
                    denormalize(model_predict(<<call.spectra[r]>>, call.num_labels),
                                call.std_labels, call.mean_labels)

(***************************************************************************)
(* The run folder of apogee_train and gaia_train, and the model file that  *)
(* the evaluation opens in it.  A string is the sequence of its            *)
(* characters.  Runs started in one working directory on one day with one  *)
(* trainer compete for the same folder names, so a folder is known by the  *)
(* run number in its name.  A run is cut at its calls to the file system.  *)
(***************************************************************************)
\* the training runs started together
NumRuns == 2

\* range(1, 99999) stops before this run number
RunnoStop == 99999

\* str.format with '{}': the decimal digits of a natural number
DigitChars == <<"0", "1", "2", "3", "4", "5", "6", "7", "8", "9">>
RECURSIVE format_d(_)
format_d(n) ==
    IF n < 10
    THEN <<DigitChars[n + 1]>>
    ELSE format_d(n \div 10) \o <<DigitChars[(n % 10) + 1]>>

\* str.format with '{:0wd}': the digits, zeros put in front up to width w
format_0d(n, w) ==
    LET digits == format_d(n)
    IN  IF Len(digits) >= w
        THEN digits
        ELSE [j \in 1 .. (w - Len(digits)) |-> "0"] \o digits

\* '{}{:02d}_run{:03d}'.format(now.month, now.day, runno)
RunStamp(month, day, runno) ==
    format_d(month) \o format_0d(day, 2) \o <<"_", "r", "u", "n">> \o format_0d(runno, 3)

\* the start of the folder name of each trainer
TrainerPrefix ==
    [apogee_train |-> <<"a", "p", "o", "g", "e", "e", "_", "t", "r", "a", "i", "n", "_">>,
     gaia_train |-> <<"g", "a", "i", "a", "_", "t", "r", "a", "i", "n", "_">>]

\* 'apogee_train_{}{:02d}_run{:03d}'.format(now.month, now.day, runno)
folder_name(trainer, month, day, runno) ==
    TrainerPrefix[trainer] \o RunStamp(month, day, runno)

\* 'model_{}{:02d}_run{:03d}.h5'.format(now.month, now.day, runno)
astronn_model(month, day, runno) ==
    <<"m", "o", "d", "e", "l", "_">> \o RunStamp(month, day, runno) \o <<".", "h", "5">>

\* s[-k:]: the last k characters, all of s when it is shorter
LastChars(s, k) == IF Len(s) <= k THEN s ELSE SubSeq(s, Len(s) - k + 1, Len(s))

\* 'model_{}.h5'.format(folder_name[-11:]), the name the evaluation opens
modelname(folder) ==
    <<"m", "o", "d", "e", "l", "_">> \o LastChars(folder, 11) \o <<".", "h", "5">>

\* the first run number of range(1, 99999) whose folder does not exist, or
\* RunnoStop when every one exists.  The first missing number is at most
\* one more than the number of folders, so the search stops there.
FirstFree(folders) ==
    LET free == {r \in 1 .. (Cardinality(folders) + 1) : r \notin folders /\ r < RunnoStop}
    IN  IF free = {} THEN RunnoStop ELSE CHOOSE r \in free : \A s \in free : r <= s

\* the days a run is started on, and the run folders of that day already
\* in the working directory
RunMonths == 1 .. 12
RunDays == {1, 31}
RunFolders == {{}, {1}, {2}, 1 .. 999, 1 .. (RunnoStop - 1)}

RunInit ==
    /\ np_lenient = TRUE
    /\ GapIdle
    /\ FilterIdle
    /\ \E trainer \in DOMAIN TrainerPrefix, month \in RunMonths, day \in RunDays :
          call = [entry |-> "train", trainer |-> trainer, month |-> month, day |-> day]
    /\ pc = [p \in 1 .. NumRuns |-> "loop"]
    /\ \E folders \in RunFolders :
          loc = [folders |-> folders, made |-> {}, files |-> {},
                 run |-> [p \in 1 .. NumRuns |-> [runno |-> 1, folder |-> 0]]]
    /\ h5 = [tt \in {"train", "test"} |-> NoFile]
    /\ fetches = << >>
    /\ exc = ""

\* lines 133-139, up to the makedirs: the passes of the loop that find
\* their folder existing and the pass that finds it missing.  Folders only
\* appear, so the passes see what one look at the moment of the last pass
\* sees.  When every folder exists the loop ends without a break: runno has
\* been incremented past the last number and folder_name is the last name.
RunScan(p) ==
    /\ call.entry = "train" /\ pc[p] = "loop"
    /\ LET r == FirstFree(loc.folders)
       IN  IF r < RunnoStop
           THEN /\ loc' = [loc EXCEPT !.run[p] = [runno |-> r, folder |-> r]]
                /\ pc' = [pc EXCEPT ![p] = "makedirs"]
           ELSE /\ loc' = [loc EXCEPT !.run[p] = [runno |-> RunnoStop, folder |-> RunnoStop - 1]]
                /\ pc' = [pc EXCEPT ![p] = "open"]
    /\ UNCHANGED <<np_lenient, gd, fl, call, h5, fetches, exc>>

\* line 136: os.makedirs(folder_name) raises when the folder exists by now
RunMakedirs(p) ==
    /\ call.entry = "train" /\ pc[p] = "makedirs"
    /\ IF loc.run[p].folder \in loc.folders
       THEN /\ pc' = [pc EXCEPT ![p] = "raised"]
            /\ exc' = "FileExistsError"
            /\ loc' = loc
       ELSE /\ pc' = [pc EXCEPT ![p] = "open"]
            /\ exc' = exc
            /\ loc' = [loc EXCEPT !.folders = @ \cup {loc.run[p].folder},
                                  !.made = @ \cup {[folder |-> loc.run[p].folder, by |-> p]}]
    /\ UNCHANGED <<np_lenient, gd, fl, call, h5, fetches>>

\* a file written into a folder by a run
RunFile(p, name) == [folder |-> loc.run[p].folder, name |-> name, by |-> p]

\* lines 144-159: the hyperparameter file is written into the folder
RunOpen(p) ==
    /\ call.entry = "train" /\ pc[p] = "open"
    /\ loc' = [loc EXCEPT !.files = @ \cup {RunFile(p, <<"h", "y", "p", "e", "r">>)}]
    /\ pc' = [pc EXCEPT ![p] = "fit"]
    /\ UNCHANGED <<np_lenient, gd, fl, call, h5, fetches, exc>>

\* lines 254-255: the trained model is saved into the folder
RunSave(p) ==
    /\ call.entry = "train" /\ pc[p] = "fit"
    /\ loc' = [loc EXCEPT !.files = @ \cup
                  {RunFile(p, astronn_model(call.month, call.day, loc.run[p].runno))}]
    /\ pc' = [pc EXCEPT ![p] = "saved"]
    /\ UNCHANGED <<np_lenient, gd, fl, call, h5, fetches, exc>>

\* the model file of that name is in the folder of the run
InFolder(p, name) == \E f \in loc.files : f.folder = loc.run[p].folder /\ f.name = name

\* test.py lines 90-96: the evaluation called with folder_name opens the
\* model under the name it derives from the folder name
RunEval(p) ==
    /\ call.entry = "train" /\ pc[p] = "saved"
    /\ IF InFolder(p, modelname(folder_name(call.trainer, call.month, call.day,
                                            loc.run[p].folder)))
       THEN pc' = [pc EXCEPT ![p] = "done"] /\ exc' = exc
       ELSE pc' = [pc EXCEPT ![p] = "raised"] /\ exc' = "OSError"
    /\ UNCHANGED <<np_lenient, gd, fl, call, loc, h5, fetches>>

RunNext ==
    \E p \in 1 .. NumRuns :
        RunScan(p) \/ RunMakedirs(p) \/ RunOpen(p) \/ RunSave(p) \/ RunEval(p)

(***************************************************************************)
(* SpecRun: training runs started together on every day.                   *)
(***************************************************************************)
SpecRun == RunInit /\ [][RunNext]_vars

(***************************************************************************)
(* Claims about the run folder and the model file (checked under SpecRun). *)
(***************************************************************************)
\* the run has saved its model
HasSaved(p) ==
    InFolder(p, astronn_model(call.month, call.day, loc.run[p].runno))

\* C25 (as stated): whatever the month, the day and the run number, the
\* name the evaluation derives from the folder name, 'model_' and the last
\* 11 characters of it, is the name the training saved the model under.
C25_EvaluationOpensTheSavedModel ==
    call.entry = "train" =>
        \A p \in 1 .. NumRuns :
            HasSaved(p) =>
                modelname(folder_name(call.trainer, call.month, call.day, loc.run[p].folder))
                    = astronn_model(call.month, call.day, loc.run[p].runno)

\* the run has left the loop that chooses its folder
HasChosen(p) == pc[p] \notin {"loop", "makedirs"}

\* C29 (as stated): a run that has chosen its folder works in a folder it
\* has made itself, also when two runs start together; no run writes into
\* a folder that was there before or that another run made.
C29_WorksInAFolderOfItsOwn ==
    call.entry = "train" =>
        /\ \A p \in 1 .. NumRuns :
              HasChosen(p) => [folder |-> loc.run[p].folder, by |-> p] \in loc.made
        /\ \A f \in loc.files : [folder |-> f.folder, by |-> f.by] \in loc.made

(***************************************************************************)
(* astroNN.NN.train.apogee_train and gaia_train up to the files they save, *)
(* and astroNN.NN.test.apogee_model_eval up to its call of                 *)
(* batch_predictions.  A dataset file is what compile_apogee writes: a     *)
(* spectra column, an index column and one column per label.  Every cell   *)
(* of a file holds a value of its own, so that a row of a loaded array     *)
(* says which row of the file it comes from.  A mean, a median and a       *)
(* variance are exact fractions.                                           *)
(***************************************************************************)
\* the most rows of a dataset file
MaxTrainRows == 2

\* the value that stands for a missing label
Sentinel == -9999

\* the targets the docstring of apogee_train lists, in its order
DocumentedTargets ==
    <<"teff", "logg", "M", "alpha", "C", "Cl", "N", "O", "Na", "Mg", "Al", "Si", "P",
      "S", "K", "Ca", "Ti", "Ti2", "V", "Cr", "Mn", "Fe", "Ni">>

\* what target == ['all'] is replaced by
AllTargets ==
    <<"teff", "logg", "M", "alpha", "C", "Cl", "N", "O", "Na", "Mg", "Al", "Si", "P",
      "S", "Ca", "Ti", "Ti2", "V", "Cr", "Mn", "Fe", "Ni">>

\* lines 161-163
ExpandTarget(target) == IF target = <<"all">> THEN AllTargets ELSE target

\* a dataset file with one row per element of missing, the set of the
\* labels that are missing in that row
LabelValue(name, r) ==
    (100 * r) + (CHOOSE q \in 1 .. Len(DocumentedTargets) : DocumentedTargets[q] = name)
DatasetFile(missing) ==
    [spectra |-> [r \in 1 .. Len(missing) |-> <<10 * r, (10 * r) + 3>>],
     index |-> [r \in 1 .. Len(missing) |-> 7 * r],
     absmag |-> [r \in 1 .. Len(missing) |-> 4 * r],
     col |-> [name \in Elems(DocumentedTargets) |->
                 [r \in 1 .. Len(missing) |->
                     IF name \in missing[r] THEN Sentinel ELSE LabelValue(name, r)]]]

\* the rows the files are made of, and the files
MissingLabels == {{}, {"teff"}, {"logg"}, {"Fe"}, {"teff", "Fe"}}
RECURSIVE RowsUpTo(_)
RowsUpTo(n) ==
    IF n = 0
    THEN {<< >>}
    ELSE RowsUpTo(n - 1) \cup
         {Append(rows, m) : rows \in {x \in RowsUpTo(n - 1) : Len(x) = n - 1},
                            m \in MissingLabels}
DatasetFiles == {DatasetFile(missing) : missing \in RowsUpTo(MaxTrainRows)}

\* the target lists a training is called with
TargetLists ==
    {<<"all">>, <<"teff">>, <<"Fe">>, <<"teff", "logg">>, <<"logg", "teff">>,
     <<"M", "Fe">>, <<"teff", "logg", "Fe">>}

\* an exact fraction
Frac(num, den) == [num |-> num, den |-> den]

RECURSIVE SumSeq(_)
SumSeq(ar) == IF ar = << >> THEN 0 ELSE ar[1] + SumSeq(Tail(ar))

\* np.mean(ar): the sum over the count (0/0, nan, for no element)
np_mean(ar) == Frac(SumSeq(ar), Len(ar))

\* np.std(ar): the root of the mean squared deviation from the mean, kept
\* as the variance it is the root of
np_std(ar) ==
    LET n == Len(ar)
        squares == SumSeq([j \in 1 .. n |-> ar[j] * ar[j]])
    IN  [root_of |-> Frac((n * squares) - (SumSeq(ar) * SumSeq(ar)), n * n)]

\* ndarray.flatten() of a two-dimensional array
RECURSIVE Flatten(_)
Flatten(rows) == IF rows = << >> THEN << >> ELSE rows[1] \o Flatten(Tail(rows))

\* np.median(spectra): the middle of the sorted pixels, the mean of the two
\* middle ones when their number is even (0/0, nan, for no pixel)
np_median(rows) ==
    LET srt == np_sort(Flatten(rows))
        n == Len(srt)
    IN  IF n = 0 THEN Frac(0, 0)
        ELSE IF n % 2 = 1 THEN Frac(srt[(n + 1) \div 2], 1)
        ELSE Frac(srt[n \div 2] + srt[(n \div 2) + 1], 2)

\* spectra -= mean; spectra /= std, pixel by pixel
Normalised(rows, mean, std) ==
    [j \in 1 .. Len(rows) |->
        [f \in 1 .. Len(rows[j]) |-> Frac((rows[j][f] * mean.den) - mean.num, mean.den * std)]]

\* (mutant) a one-dimensional array made a column, one row per element
atleast_2d_vector_column(ar) == [j \in 1 .. Len(ar) |-> <<ar[j]>>]

\* np.atleast_2d of a scalar and of a one-dimensional array
atleast_2d_scalar(x) == <<<<x>>>>
atleast_2d_vector(ar) == <<ar>>

\* np.vstack((a, b)) of two arrays made two-dimensional: the rows of a,
\* then the rows of b
np_vstack(tup) == tup[1] \o tup[2]

\* (mutant) no row excluded
Not9999_every_row(temp) == py_range(Len(temp))

\* np.where(temp != -9999); the one-element tuple it is wrapped in is
\* unwrapped by np.intersect1d and by the indexing alike
Not9999(temp) == np_where([j \in 1 .. Len(temp) |-> temp[j] # Sentinel])

\* the loop over the targets: the rows of the first target, intersected
\* with the rows of each further one
RECURSIVE index_not9999(_, _)
index_not9999(F, target) ==
    IF Len(target) = 1
    THEN Not9999(F.col[target[1]])
    ELSE reduce_intersect1d(<<index_not9999(F, SubSeq(target, 1, Len(target) - 1)),
                              Not9999(F.col[target[Len(target)]])>>)

\* the loop that loads the labels: the first column as it is, each further
\* one put beside it by np.column_stack
RECURSIVE LoadLabels(_, _, _)
LoadLabels(F, target, idx) ==
    LET temp == Take(F.col[target[Len(target)]], idx)
    IN  IF Len(target) = 1 THEN temp
        ELSE LET y == LoadLabels(F, SubSeq(target, 1, Len(target) - 1), idx)
             IN  IF Len(target) = 2
                 THEN [j \in 1 .. Len(idx) |-> <<y[j], temp[j]>>]
                 ELSE [j \in 1 .. Len(idx) |-> Append(y[j], temp[j])]

\* test_labels.reshape((len(test_labels), 1)) for a single target
ReshapeColumn(y) == [j \in 1 .. Len(y) |-> <<y[j]>>]

\* train.py lines 168-216: what apogee_train holds when its file is read
TrainLoaded(F, target0) ==
    LET target == ExpandTarget(target0)
        idx == index_not9999(F, target)
        spectra == Take(F.spectra, idx)
        specpix_std == 1
        specpix_mean == np_median(spectra)
        mean_labels == [k \in 1 .. Len(target) |-> np_mean(Take(F.col[target[k]], idx))]
        std_labels == [k \in 1 .. Len(target) |-> np_std(Take(F.col[target[k]], idx))]
    IN  [target |-> target, index_not9999 |-> idx,
         spectra |-> Normalised(spectra, specpix_mean, specpix_std),
         y |-> LoadLabels(F, target, idx),
         mu_std |-> np_vstack(<<atleast_2d_vector(mean_labels), atleast_2d_vector(std_labels)>>),
         spec_meanstd |-> np_vstack(<<atleast_2d_scalar(specpix_mean),
                                      atleast_2d_scalar(specpix_std)>>)]

\* train.py lines 393-419: the same of gaia_train, which uses every row
GaiaTrainLoaded(F) ==
    LET specpix_std == 1
        specpix_mean == np_median(F.spectra)
    IN  [spectra |-> Normalised(F.spectra, specpix_mean, specpix_std),
         absmag |-> F.absmag,
         mu_std |-> np_vstack(<<atleast_2d_scalar(np_mean(F.absmag)),
                                atleast_2d_scalar(np_std(F.absmag))>>),
         spec_meanstd |-> np_vstack(<<atleast_2d_scalar(specpix_mean),
                                      atleast_2d_scalar(specpix_std)>>)]

\* a file written for an empty partition: its spectra column is the array
\* of an empty list, which has one dimension only, so that spectra.shape[1]
\* (train.py lines 189 and 403, test.py line 121) raises
NoRows(F) == F.spectra = << >>

\* the run folder before anything is saved
EmptyFolder == [saved |-> {}]

\* the files of the run folder an evaluation finds: those a training on a
\* file of two rows, the second with no teff, has saved
TrainedFolder(target) ==
    LET t == TrainLoaded(DatasetFile(<<{}, {"teff"}>>), target)
    IN  [saved |-> {"meanstd.npy", "spectra_meanstd.npy", "targetname.npy"},
         meanstd |-> t.mu_std, spectra_meanstd |-> t.spec_meanstd, targetname |-> t.target]

TrainInit ==
    /\ np_lenient = TRUE
    /\ GapIdle
    /\ FilterIdle
    /\ \E F \in DatasetFiles :
          \/ \E target \in TargetLists :
                call = [entry |-> "apogee_train", file |-> F, target |-> target,
                        folder |-> EmptyFolder]
          \/ call = [entry |-> "gaia_train", file |-> F, folder |-> EmptyFolder]
          \/ \E target \in TargetLists :
                call = [entry |-> "apogee_model_eval", file |-> F,
                        folder |-> TrainedFolder(target)]
    /\ pc = "start"
    /\ loc = << >>
    /\ h5 = [tt \in {"train", "test"} |-> NoFile]
    /\ fetches = << >>
    /\ exc = ""

\* apogee_train, lines 161-216
TrainLoad ==
    /\ pc = "start" /\ call.entry = "apogee_train"
    /\ IF NoRows(call.file)
       THEN pc' = "raised" /\ exc' = "IndexError" /\ loc' = loc
       ELSE pc' = "fit" /\ exc' = exc /\ loc' = TrainLoaded(call.file, call.target)
    /\ UNCHANGED <<np_lenient, gd, fl, call, h5, fetches>>

\* apogee_train, lines 254-259: np.save of the two summaries and the targets
TrainSave ==
    /\ pc = "fit" /\ call.entry = "apogee_train"
    /\ call' = [call EXCEPT !.folder =
                   [saved |-> {"meanstd.npy", "spectra_meanstd.npy", "targetname.npy"},
                    meanstd |-> loc.mu_std, spectra_meanstd |-> loc.spec_meanstd,
                    targetname |-> loc.target]]
    /\ pc' = "done"
    /\ UNCHANGED <<np_lenient, gd, fl, loc, h5, fetches, exc>>

\* gaia_train, lines 393-419
GaiaTrainLoad ==
    /\ pc = "start" /\ call.entry = "gaia_train"
    /\ IF NoRows(call.file)
       THEN pc' = "raised" /\ exc' = "IndexError" /\ loc' = loc
       ELSE pc' = "fit" /\ exc' = exc /\ loc' = GaiaTrainLoaded(call.file)
    /\ UNCHANGED <<np_lenient, gd, fl, call, h5, fetches>>

\* gaia_train, lines 457-461: np.save of the two summaries
GaiaTrainSave ==
    /\ pc = "fit" /\ call.entry = "gaia_train"
    /\ call' = [call EXCEPT !.folder =
                   [saved |-> {"meanstd.npy", "spectra_meanstd.npy"},
                    meanstd |-> loc.mu_std, spectra_meanstd |-> loc.spec_meanstd]]
    /\ pc' = "done"
    /\ UNCHANGED <<np_lenient, gd, fl, loc, h5, fetches, exc>>

\* apogee_model_eval, test.py lines 92-132: the summaries and the targets
\* are read from the run folder, the rows from the test file
EvalLoad ==
    /\ pc = "start" /\ call.entry = "apogee_model_eval"
    /\ LET F == call.file
           target == call.folder.targetname
           spec_meanstd == call.folder.spectra_meanstd
           idx == index_not9999(F, target)
           labels == LoadLabels(F, target, idx)
       IN  IF NoRows(F)
           THEN pc' = "raised" /\ exc' = "IndexError" /\ loc' = loc
           ELSE /\ pc' = "done" /\ exc' = exc
                /\ loc' = [target |-> target, index_not9999 |-> idx,
                           num_labels |-> Len(call.folder.meanstd[1]),
                           spectra |-> Normalised(Take(F.spectra, idx), spec_meanstd[1][1],
                                                  spec_meanstd[2][1]),
                           y |-> IF Len(target) = 1 THEN ReshapeColumn(labels) ELSE labels,
                           apogee_index |-> Take(F.index, idx)]
    /\ UNCHANGED <<np_lenient, gd, fl, call, h5, fetches>>

TrainNext == TrainLoad \/ TrainSave \/ GaiaTrainLoad \/ GaiaTrainSave \/ EvalLoad

(***************************************************************************)
(* SpecTrain: the loading and the saving of apogee_train, gaia_train and   *)
(* apogee_model_eval on every dataset file and target list.                *)
(***************************************************************************)
SpecTrain == TrainInit /\ [][TrainNext]_vars

(***************************************************************************)
(* Claims about the training and the evaluation (checked under SpecTrain). *)
(***************************************************************************)
\* the file has been read by a training or an evaluation on targets
LabelsLoaded ==
    \/ call.entry = "apogee_train" /\ pc \in {"fit", "done"}
    \/ call.entry = "apogee_model_eval" /\ pc = "done"

\* the rows of the file (0-based) none of whose selected labels is missing
UsedRows ==
    {r \in 0 .. (Len(call.file.index) - 1) :
        \A k \in 1 .. Len(loc.target) : call.file.col[loc.target[k]][r + 1] # Sentinel}

\* the selected labels of a row of the file; a training on one target keeps
\* them as a number, not as a row of one number
LabelsOfRow(r) ==
    IF call.entry = "apogee_train" /\ Len(loc.target) = 1
    THEN call.file.col[loc.target[1]][r + 1]
    ELSE [k \in 1 .. Len(loc.target) |-> call.file.col[loc.target[k]][r + 1]]

\* C27: in apogee_train and apogee_model_eval a row of the file is used if
\* and only if none of its selected labels is -9999, once each; row j of
\* the spectra, row j of the labels and, in the evaluation, entry j of the
\* catalog index come from the same row of the file.
C27_RowsWithoutSentinelAligned ==
    LabelsLoaded =>
        /\ Elems(loc.index_not9999) = UsedRows
        /\ Len(loc.index_not9999) = Cardinality(UsedRows)
        /\ Len(loc.spectra) = Len(loc.index_not9999)
        /\ Len(loc.y) = Len(loc.index_not9999)
        /\ \A j \in 1 .. Len(loc.index_not9999) :
              LET r == loc.index_not9999[j]
                  centre == IF call.entry = "apogee_train"
                            THEN loc.spec_meanstd[1][1]
                            ELSE call.folder.spectra_meanstd[1][1]
              IN  /\ <<loc.spectra[j]>> = Normalised(<<call.file.spectra[r + 1]>>, centre, 1)
                  /\ loc.y[j] = LabelsOfRow(r)
                  /\ call.entry = "apogee_model_eval" =>
                        /\ Len(loc.apogee_index) = Len(loc.index_not9999)
                        /\ loc.apogee_index[j] = call.file.index[r + 1]

\* an evaluation on two targets that has dropped the second of two rows
C27_Witness ==
    /\ call.entry = "apogee_model_eval" /\ pc = "done"
    /\ Len(loc.target) = 2 /\ loc.index_not9999 = <<0>> /\ Len(call.file.index) = 2

\* a training has saved its files
TrainingSaved == call.entry \in {"apogee_train", "gaia_train"} /\ pc = "done"

\* the rows a training uses, and a label column over them
TrainedRows ==
    IF call.entry = "apogee_train"
    THEN SelectSeq(py_range(Len(call.file.index)), LAMBDA r : r \in UsedRows)
    ELSE py_range(Len(call.file.index))
TrainedColumn(k) ==
    IF call.entry = "apogee_train"
    THEN Take(call.file.col[loc.target[k]], TrainedRows)
    ELSE call.file.absmag

\* the number of label columns: one per target; gaia_train has one label
TrainedLabels == IF call.entry = "apogee_train" THEN Len(loc.target) ELSE 1

\* m is the median of the pixels: not more than half of them lie below it
\* and not more than half above
IsMedian(m, pixels) ==
    /\ m.den \in {1, 2}
    /\ 2 * Cardinality({j \in 1 .. Len(pixels) : pixels[j] * m.den < m.num}) <= Len(pixels)
    /\ 2 * Cardinality({j \in 1 .. Len(pixels) : pixels[j] * m.den > m.num}) <= Len(pixels)
    /\ \E a, b \in 1 .. Len(pixels) :
          IF m.den = 1 THEN m.num = pixels[a] ELSE a # b /\ m.num = pixels[a] + pixels[b]

\* C21: a training saves a label summary of exactly 2 rows, the means and
\* the standard deviations, with one column per target in the order of the
\* target list, and a spectral summary of 2 rows and 1 column holding the
\* median of the pixels of the spectra it uses and 1.
C21_SummariesSaved ==
    TrainingSaved =>
        /\ {"meanstd.npy", "spectra_meanstd.npy"} \subseteq call.folder.saved
        /\ Len(call.folder.meanstd) = 2
        /\ \A i \in 1 .. 2 : Len(call.folder.meanstd[i]) = TrainedLabels
        /\ \A k \in 1 .. TrainedLabels :
              /\ call.folder.meanstd[1][k] = np_mean(TrainedColumn(k))
              /\ call.folder.meanstd[2][k] = np_std(TrainedColumn(k))
        /\ Len(call.folder.spectra_meanstd) = 2
        /\ \A i \in 1 .. 2 : Len(call.folder.spectra_meanstd[i]) = 1
        /\ TrainedRows # << >> =>
              IsMedian(call.folder.spectra_meanstd[1][1],
                       Flatten(Take(call.file.spectra, TrainedRows)))
        /\ call.folder.spectra_meanstd[2][1] = 1

\* a training on three targets that used one row of two has saved its
\* summaries
C21_Witness ==
    /\ TrainingSaved
    /\ Len(TrainedRows) >= 1
    /\ call.entry = "apogee_train" /\ Len(loc.target) = 3 /\ Len(TrainedRows) = 1
    /\ Len(call.file.index) = 2

\* C22 (as stated): apogee_train called with target=['all'] trains on each
\* of the targets its docstring lists, each exactly once.
C22_AllIsEveryDocumentedTarget ==
    (call.entry = "apogee_train" /\ call.target = <<"all">> /\ pc \in {"fit", "done"}) =>
        \A q \in 1 .. Len(DocumentedTargets) :
            Cardinality({k \in 1 .. Len(loc.target) : loc.target[k] = DocumentedTargets[q]}) = 1
=============================================================================
